---------------------------- MODULE Spec2Model ----------------------------
(***************************************************************************)
(* A model of the prolly-tree core of dolt: the AddressMap and its editor, *)
(* the node builder, the Range engine and the root compare-and-swap used   *)
(* by `noms root`.                                                         *)
(*                                                                         *)
(* Names are byte strings (sequences of small naturals), addresses are     *)
(* small naturals with 0 standing for the zero hash.  The address of a     *)
(* node is modelled by the node's content itself: the content hash is      *)
(* taken to be collision free, so two nodes have the same address iff      *)
(* they have the same serialized fields.                                   *)
(***************************************************************************)
EXTENDS Integers, Sequences, FiniteSets, TLC

VARIABLES
    c,          \* the AddressMap held by the client (the base of the editor)
    wr,         \* the AddressMapEditor: its copy of the tree and its mutation buffer
    res,        \* what the last Flush returned: (AddressMap, error)
    iter,       \* what the last IterAll did: the callback invocations and the error
    lastEdit,   \* history: per name, the last edit given to the editor
    shadow,     \* history: the editor as it would be without the no-op deletes
    hist,       \* history: the (name, address) pairs added since the empty map
    ranges,     \* the Ranges given to the range engine
    ndKeys,     \* the keys of the Node searched, sorted under the descriptor
    out,        \* what the last range operation returned
    csRoot,     \* the root hash recorded by the ChunkStore
    procs,      \* the invocations of `noms root`, one per process
    mcc,        \* the MapChunkCache: hashToChunk and toFlush
    mccOut,     \* what the last MapChunkCache operation was given and returned
    ever,       \* history: the chunks ever given to Put or PutChunk
    fresh,      \* history: the chunks first inserted since the last flush
    tblVersion, \* the version of the table the index belongs to
    diId,       \* the id of the doltIndex
    diCache,    \* doltIndex.cache: the cached durableIndexState, or nil
    callers,    \* the calls of getDurableState, one per session
    slotProjections,\* durableIndexState.cachedProjections
    slotConverter,\* durableIndexState.cachedSqlRowConverter
    convCalls,  \* the calls of sqlRowConverter, one per session
    sqlRange,   \* the sql.Range given to SplitNullsFromRange
    snOut,      \* what SplitNullsFromRange returned
    bbox,       \* the bounds of the sql.Range given to prollySpatialRanges
    spOut,      \* what prollySpatialRanges returned
    groupings,  \* the ChunkRelations of the archive command
    added,      \* history: the pairs of addresses given to Add
    arPc,       \* where the walk over the history stands
    parentsLeft,\* parents of the commit still to look at
    deltasLeft, \* table deltas of the parent still to look at
    delta,      \* the table delta looked at last
    walked,     \* whether ChunkAddressDiffOrderedTrees was run for it
    arOut,      \* the count printed by Exec
    builder,    \* an addrMapBuilder
    given,      \* history: the items given to AddItems since the last StartNode or Build
    bldOut,     \* what the last operation of the builder returned
    cpArg,      \* the commit given to cherry-pick
    cpRows,     \* the staged columns of the rows dolt_status returned
    cpIssued,   \* the statements sent to the queryist
    cpPc,       \* where cherryPick stands
    cpRet,      \* what cherryPick returned
    rbState,    \* the rebase status of the working set and the table dolt_rebase
    rbOut,      \* the last statement of the session and its result
    rbStarted,  \* history: a rebase was started and neither completed nor aborted since
    rbCompleted,\* history: the rebases completed by --continue
    bpPut,      \* nomsBlobPut: the file size, the concurrency, the chunk size and len(readers)
    bpPc,       \* nomsBlobPut: where the call is
    bpReaders,  \* nomsBlobPut: the readers made so far, with offset and limit
    trimIn,     \* trimRangeCutValue: the column, the index's prefix lengths and the key part
    trimOut     \* trimRangeCutValue: what the call returned

amVars == <<c, wr, res, iter, lastEdit, shadow, hist>>

rgVars == <<ranges, ndKeys, out>>

rtVars == <<csRoot, procs>>

ccVars == <<mcc, mccOut, ever, fresh>>

dsVars == <<tblVersion, diId, diCache, callers>>

rcVars == <<slotProjections, slotConverter, convCalls>>

snVars == <<sqlRange, snOut>>

spVars == <<bbox, spOut>>

arVars == <<groupings, added, arPc, parentsLeft, deltasLeft, delta, walked, arOut>>

bdVars == <<builder, given, bldOut>>

cpVars == <<cpArg, cpRows, cpIssued, cpPc, cpRet>>

rbVars == <<rbState, rbOut, rbStarted, rbCompleted>>

bpVars == <<bpPut, bpPc, bpReaders>>

trVars == <<trimIn, trimOut>>

vars == <<c, wr, res, iter, lastEdit, shadow, hist, ranges, ndKeys, out, csRoot, procs, mcc, mccOut, ever, fresh, tblVersion, diId, diCache, callers, slotProjections, slotConverter, convCalls, sqlRange, snOut, bbox, spOut, groupings, added, arPc, parentsLeft, deltasLeft, delta, walked, arOut, builder, given, bldOut, cpArg, cpRows, cpIssued, cpPc, cpRet, rbState, rbOut, rbStarted, rbCompleted, bpPut, bpPc, bpReaders, trimIn, trimOut>>

\* what the AddressMap operations leave alone, and what the range operations do
notAm == <<rgVars, rtVars, ccVars, dsVars, rcVars, snVars, spVars, arVars, bdVars, cpVars, rbVars, bpVars, trVars>>

notRg == <<amVars, rtVars, ccVars, dsVars, rcVars, snVars, spVars, arVars, bdVars, cpVars, rbVars, bpVars, trVars>>

notRt == <<amVars, rgVars, ccVars, dsVars, rcVars, snVars, spVars, arVars, bdVars, cpVars, rbVars, bpVars, trVars>>

notCc == <<amVars, rgVars, rtVars, dsVars, rcVars, snVars, spVars, arVars, bdVars, cpVars, rbVars, bpVars, trVars>>

notDs == <<amVars, rgVars, rtVars, ccVars, rcVars, snVars, spVars, arVars, bdVars, cpVars, rbVars, bpVars, trVars>>

notRc == <<amVars, rgVars, rtVars, ccVars, dsVars, snVars, spVars, arVars, bdVars, cpVars, rbVars, bpVars, trVars>>

notSn == <<amVars, rgVars, rtVars, ccVars, dsVars, rcVars, spVars, arVars, bdVars, cpVars, rbVars, bpVars, trVars>>

notSp == <<amVars, rgVars, rtVars, ccVars, dsVars, rcVars, snVars, arVars, bdVars, cpVars, rbVars, bpVars, trVars>>

notAr == <<amVars, rgVars, rtVars, ccVars, dsVars, rcVars, snVars, spVars, bdVars, cpVars, rbVars, bpVars, trVars>>

notBd == <<amVars, rgVars, rtVars, ccVars, dsVars, rcVars, snVars, spVars, arVars, cpVars, rbVars, bpVars, trVars>>

notCp == <<amVars, rgVars, rtVars, ccVars, dsVars, rcVars, snVars, spVars, arVars, bdVars, rbVars, bpVars, trVars>>

notRb == <<amVars, rgVars, rtVars, ccVars, dsVars, rcVars, snVars, spVars, arVars, bdVars, cpVars, bpVars, trVars>>

notBp == <<amVars, rgVars, rtVars, ccVars, dsVars, rcVars, snVars, spVars, arVars, bdVars, cpVars, rbVars, trVars>>

notTr == <<amVars, rgVars, rtVars, ccVars, dsVars, rcVars, snVars, spVars, arVars, bdVars, cpVars, rbVars, bpVars>>

(***************************************************************************)
(* Bounds and domains.                                                     *)
(***************************************************************************)
NumAddrs == 2

\* the greatest field value of a tuple
MaxVal == 3

\* the most keys of a searched node
MaxKeys == 3

\* the most ranges given to SortRanges and MergeOverlappingRanges
MaxRanges == 2

\* dataset names, including a name that is a proper prefix of another
Names == {<<1>>, <<1, 2>>, <<2>>}

Addrs == 1..NumAddrs

\* hash.Hash{}: what Get leaves in addr when the name is absent
ZeroHash == 0

\* hash.ByteLen: the length of an address item
AddrLen == 20

\* tree.MaxVectorOffset (math.MaxUint16)
MaxVectorOffset == 65535

(***************************************************************************)
(* lexicographic.Compare: bytes.Compare on the two names.                  *)
(***************************************************************************)
RECURSIVE BytesCompare(_, _)
BytesCompare(left, right) ==
    IF left = <<>> /\ right = <<>> THEN 0
    ELSE IF left = <<>> THEN -1
    ELSE IF right = <<>> THEN 1
    ELSE IF Head(left) < Head(right) THEN -1
    ELSE IF Head(left) > Head(right) THEN 1
    ELSE BytesCompare(Tail(left), Tail(right))

Compare(left, right) == BytesCompare(left, right)

(***************************************************************************)
(* Nodes.  A node has a level, keys, values (addresses at a leaf, child    *)
(* nodes above), the subtree counts of an internal node and its treeCount. *)
(***************************************************************************)
MkNode(level, keys, values, subtrees, treeCount) ==
    [level |-> level, keys |-> keys, values |-> values,
     subtrees |-> subtrees, treeCount |-> treeCount, nil |-> FALSE]

\* the Node of AddressMap{}: no buffer at all
NilNode ==
    [level |-> 0, keys |-> <<>>, values |-> <<>>,
     subtrees |-> <<>>, treeCount |-> 0, nil |-> TRUE]

RECURSIVE SeqSum(_)
SeqSum(s) == IF s = <<>> THEN 0 ELSE Head(s) + SeqSum(Tail(s))

(***************************************************************************)
(* addrMapBuilder.                                                         *)
(***************************************************************************)
newAddrMapBuilder(level) ==
    [keys |-> <<>>, values |-> <<>>, size |-> 0, level |-> level, subtrees |-> <<>>]

reset(nb) ==
    [nb EXCEPT !.keys = <<>>, !.values = <<>>, !.size = 0, !.subtrees = <<>>]

StartNode(nb) == reset(nb)

\* len(key) of a tree.Item: a sequence of bytes, in which an element above
\* 255 stands for a run of that many bytes less 255 (an item of tens of
\* thousands of bytes written down in one element)
KeyLen(key) == SeqSum([i \in DOMAIN key |-> IF key[i] > 255 THEN key[i] - 255 ELSE 1])

HasCapacity_Strict(nb, key, value) == nb.size + KeyLen(key) + AddrLen < MaxVectorOffset

HasCapacity(nb, key, value) ==
    LET sum == nb.size + KeyLen(key) + AddrLen
    IN  sum <= MaxVectorOffset

AddItems(nb, key, value, subtree) ==
    [nb EXCEPT !.keys = Append(nb.keys, key),
               !.values = Append(nb.values, value),
               !.size = nb.size + KeyLen(key) + AddrLen,
               !.subtrees = Append(nb.subtrees, subtree)]

BuilderCount(nb) == Len(nb.keys)

\* the mutant: an internal node counts its keys, not the entries below them
Build_KeyCount(nb) ==
    [node |-> MkNode(nb.level, nb.keys, nb.values,
                     IF nb.level > 0 THEN nb.subtrees ELSE <<>>,
                     Len(nb.keys)),
     nb |-> reset(nb)]

\* Build: the finished node and the builder after it (reset for reuse)
Build(nb) ==
    [node |-> MkNode(nb.level, nb.keys, nb.values,
                     IF nb.level > 0 THEN nb.subtrees ELSE <<>>,
                     IF nb.level > 0 THEN SeqSum(nb.subtrees) ELSE Len(nb.keys)),
     nb |-> reset(nb)]

\* newEmptyMapNode: a leaf without keys
EmptyNode == Build(newAddrMapBuilder(0)).node

(***************************************************************************)
(* The chunker: it feeds items to a builder and cuts a node after an item  *)
(* whose digest meets the boundary criterion of the level (or before an    *)
(* item the builder has no capacity for).  The criterion depends on the    *)
(* item alone, and is rarer at higher levels.                              *)
(***************************************************************************)
LeafItem(key, value) ==
    [key |-> key, value |-> value, subtree |-> 1, digest |-> SeqSum(key) + value]

ParentItem(nd) ==
    LET key == nd.keys[Len(nd.keys)]
    IN  [key |-> key, value |-> nd, subtree |-> nd.treeCount,
         digest |-> SeqSum(key) + nd.treeCount]

MinFanout(level) == IF level = 0 THEN 1 ELSE 2

IsBoundary(nb, item) ==
    /\ BuilderCount(nb) >= MinFanout(nb.level)
    /\ item.digest % (nb.level + 2) = 0

RECURSIVE ChunkFrom(_, _, _, _)
ChunkFrom(nb, items, i, acc) ==
    IF i > Len(items)
    THEN IF BuilderCount(nb) > 0 THEN Append(acc, Build(nb).node) ELSE acc
    ELSE LET it   == items[i]
             full == BuilderCount(nb) > 0 /\ ~HasCapacity(nb, it.key, it.value)
             acc1 == IF full THEN Append(acc, Build(nb).node) ELSE acc
             nb1  == IF full THEN StartNode(Build(nb).nb) ELSE nb
             nb2  == AddItems(nb1, it.key, it.value, it.subtree)
         IN  IF IsBoundary(nb2, it)
             THEN ChunkFrom(StartNode(Build(nb2).nb), items, i + 1,
                            Append(acc1, Build(nb2).node))
             ELSE ChunkFrom(nb2, items, i + 1, acc1)

\* the levels above a sequence of sibling nodes, up to a single root
RECURSIVE TreeOver(_)
TreeOver(nodes) ==
    IF nodes = <<>> THEN EmptyNode
    ELSE IF Len(nodes) = 1 THEN nodes[1]
    ELSE TreeOver(ChunkFrom(newAddrMapBuilder(nodes[1].level + 1),
                            [i \in 1..Len(nodes) |-> ParentItem(nodes[i])],
                            1, <<>>))

(***************************************************************************)
(* orderedTree: reading a tree.                                            *)
(***************************************************************************)
SetMin(S) == CHOOSE x \in S : \A y \in S : x <= y

RECURSIVE Leaves(_)
Leaves(nd) ==
    IF nd.level = 0
    THEN IF nd.keys = <<>> THEN <<>> ELSE <<nd>>
    ELSE LET RECURSIVE cat(_)
             cat(i) == IF i > Len(nd.values) THEN <<>>
                       ELSE Leaves(nd.values[i]) \o cat(i + 1)
         IN  cat(1)

LeafEntries(nd) == [i \in 1..Len(nd.keys) |-> LeafItem(nd.keys[i], nd.values[i])]

RECURSIVE EntriesOf(_)
EntriesOf(leaves) ==
    IF leaves = <<>> THEN <<>>
    ELSE LeafEntries(Head(leaves)) \o EntriesOf(Tail(leaves))

\* the cursor's walk over the whole tree: every (key, value), leaf by leaf
Entries(nd) == EntriesOf(Leaves(nd))

\* orderedTree.get: at each node the smallest key >= k, down to the leaf
RECURSIVE TreeGet(_, _)
TreeGet(nd, k) ==
    LET ge == {i \in 1..Len(nd.keys) : Compare(nd.keys[i], k) >= 0}
        i  == SetMin(ge)
    IN  IF ge = {} THEN [found |-> FALSE, value |-> ZeroHash]
        ELSE IF nd.level > 0 THEN TreeGet(nd.values[i], k)
        ELSE IF Compare(nd.keys[i], k) = 0
             THEN [found |-> TRUE, value |-> nd.values[i]]
             ELSE [found |-> FALSE, value |-> ZeroHash]

(***************************************************************************)
(* AddressMap.                                                             *)
(***************************************************************************)
NewEmptyAddressMap == EmptyNode

Count(m) == m.treeCount

\* the root's address (the content of the root node stands for its hash)
HashOf(m) == m

Get(m, name) ==
    LET r == TreeGet(m, name)
    IN  IF r.found THEN r.value ELSE ZeroHash

Has(m, name) == TreeGet(m, name).found

\* IterAll with a callback that fails at its failAt-th call (0: never)
RECURSIVE IterLoop(_, _, _, _)
IterLoop(entries, i, failAt, calls) ==
    IF i > Len(entries) THEN [calls |-> calls, err |-> FALSE]
    ELSE LET calls1 == Append(calls, <<entries[i].key, entries[i].value>>)
         IN  IF failAt = i THEN [calls |-> calls1, err |-> TRUE]
             ELSE IterLoop(entries, i + 1, failAt, calls1)

IterAll(m, failAt) == IterLoop(Entries(m), 1, failAt, <<>>)

(***************************************************************************)
(* orderedMap: the editor's mutation buffer, a map sorted by key from a    *)
(* key to a value or a tombstone.                                          *)
(***************************************************************************)
BufPut(edits, e) ==
    SelectSeq(edits, LAMBDA x : Compare(x.key, e.key) < 0)
        \o <<e>>
        \o SelectSeq(edits, LAMBDA x : Compare(x.key, e.key) > 0)

put(edits, key, value) == BufPut(edits, [key |-> key, tomb |-> FALSE, value |-> value])

delete(edits, key) == BufPut(edits, [key |-> key, tomb |-> TRUE, value |-> ZeroHash])

\* the merge of the base tree's entries with the sorted mutations
RECURSIVE MergeEdits(_, _)
MergeEdits(base, muts) ==
    IF muts = <<>> THEN base
    ELSE LET m   == Head(muts)
             ins == IF m.tomb THEN <<>> ELSE <<LeafItem(m.key, m.value)>>
         IN  IF base = <<>> THEN ins \o MergeEdits(base, Tail(muts))
             ELSE LET cmp == Compare(Head(base).key, m.key)
                  IN  IF cmp < 0 THEN <<Head(base)>> \o MergeEdits(Tail(base), muts)
                      ELSE IF cmp > 0 THEN ins \o MergeEdits(base, Tail(muts))
                      ELSE ins \o MergeEdits(Tail(base), Tail(muts))

\* tree.ApplyMutations: the leaves left of the first mutated key are kept,
\* the rest of the base is streamed, merged with the mutations and rebuilt
ApplyMutations(root, muts) ==
    IF muts = <<>> THEN root
    ELSE LET leaves == Leaves(root)
             n      == Len(leaves)
             k0     == muts[1].key
             hit    == {i \in 1..n :
                          Compare(leaves[i].keys[Len(leaves[i].keys)], k0) >= 0}
             idx    == IF n = 0 THEN 1 ELSE IF hit = {} THEN n ELSE SetMin(hit)
             prefix == SubSeq(leaves, 1, idx - 1)
             rest   == EntriesOf(SubSeq(leaves, idx, n))
             merged == MergeEdits(rest, muts)
         IN  TreeOver(prefix \o ChunkFrom(newAddrMapBuilder(0), merged, 1, <<>>))

(***************************************************************************)
(* AddressMapEditor.                                                       *)
(***************************************************************************)
Editor(m) == [tree |-> m, edits |-> <<>>]

\* the mutant: Add leaves a name of the base tree alone
Add_IfAbsent(w, name, addr) ==
    IF TreeGet(w.tree, name).found THEN w
    ELSE [w EXCEPT !.edits = put(w.edits, name, addr)]

Add(w, name, addr) == [w EXCEPT !.edits = put(w.edits, name, addr)]

Update(w, name, addr) == [w EXCEPT !.edits = put(w.edits, name, addr)]

\* the mutant: Delete writes the zero address instead of a tombstone
Delete_ZeroAddr(w, name) == [w EXCEPT !.edits = put(w.edits, name, ZeroHash)]

Delete(w, name) == [w EXCEPT !.edits = delete(w.edits, name)]

\* the mutant: Flush applies the mutations to an empty root
Flush_FromEmpty(w, ioErr) ==
    LET root == ApplyMutations(EmptyNode, w.edits)
    IN  IF ioErr
        THEN [map |-> NilNode, err |-> TRUE, wr |-> w]
        ELSE [map |-> root, err |-> FALSE, wr |-> w]

\* the mutant: Flush stores the new root in the editor's tree, error or not
Flush_InPlace(w, ioErr) ==
    LET root == ApplyMutations(w.tree, w.edits)
    IN  IF ioErr
        THEN [map |-> NilNode, err |-> TRUE, wr |-> [w EXCEPT !.tree = root]]
        ELSE [map |-> root, err |-> FALSE, wr |-> [w EXCEPT !.tree = root]]

\* Flush: the returned AddressMap and error, and the editor after the call
Flush(w, ioErr) ==
    LET tr   == w.tree
        root == ApplyMutations(tr, w.edits)
    IN  IF ioErr
        THEN [map |-> NilNode, err |-> TRUE, wr |-> w]
        ELSE [map |-> root, err |-> FALSE, wr |-> w]

(***************************************************************************)
(* Tuples and the descriptor.  A tuple has one field per type of the       *)
(* descriptor; a field is a value or NULL (nil).  The comparator orders    *)
(* values numerically and NULL last.                                       *)
(***************************************************************************)
Nil == 0

Types == <<"int", "int">>

Vals == 1..MaxVal

Tuples == [1..Len(Types) -> Vals \cup {Nil}]

ValueTuples == [1..Len(Types) -> Vals]

GetField(t, i) == t[i]

CompareValues(left, right) ==
    IF left = right THEN 0
    ELSE IF left = Nil THEN 1
    ELSE IF right = Nil THEN -1
    ELSE IF left < right THEN -1 ELSE 1

\* TupleDesc.CompareField: |value| against field i of |t|
CompareField(value, i, t) == CompareValues(value, GetField(t, i))

RECURSIVE CompareFrom(_, _, _)
CompareFrom(a, b, i) ==
    IF i > Len(Types) THEN 0
    ELSE IF CompareValues(a[i], b[i]) # 0 THEN CompareValues(a[i], b[i])
    ELSE CompareFrom(a, b, i + 1)

\* TupleDesc.Compare: field by field
TupleCompare(a, b) == CompareFrom(a, b, 1)

(***************************************************************************)
(* RangeCut and Range.                                                     *)
(***************************************************************************)
RangeCut(value, inclusive, null) ==
    [Value |-> value, Inclusive |-> inclusive, Null |-> null]

nonBinding_NoValue(cut) == cut.Value = Nil

nonBinding(cut) == cut.Value = Nil /\ cut.Null = FALSE

RECURSIVE AboveStartFrom(_, _, _)
AboveStartFrom(r, t, i) ==
    IF i > Len(r.Start) THEN TRUE
    ELSE LET cut == r.Start[i]
             v   == GetField(t, i)
             cmp == CompareField(cut.Value, i, t)
         IN  IF nonBinding(cut) THEN AboveStartFrom(r, t, i + 1)
             ELSE IF cut.Null \/ v = Nil THEN cut.Null /\ v = Nil
             ELSE IF cmp < 0 \/ (cut.Inclusive /\ cmp = 0)
                  THEN AboveStartFrom(r, t, i + 1)
                  ELSE FALSE

AboveStart(r, t) == AboveStartFrom(r, t, 1)

RECURSIVE BelowStopFrom(_, _, _)
BelowStopFrom(r, t, i) ==
    IF i > Len(r.Stop) THEN TRUE
    ELSE LET cut == r.Stop[i]
             v   == GetField(t, i)
             cmp == CompareField(cut.Value, i, t)
         IN  IF nonBinding(cut) THEN BelowStopFrom(r, t, i + 1)
             ELSE IF cut.Null \/ v = Nil THEN cut.Null /\ v = Nil
             ELSE IF cmp > 0 \/ (cut.Inclusive /\ cmp = 0)
                  THEN BelowStopFrom(r, t, i + 1)
                  ELSE FALSE

BelowStop(r, t) == BelowStopFrom(r, t, 1)

\* RangeCut.less
CutLess(cut, other) ==
    IF cut.Null \/ other.Null THEN ~cut.Null /\ other.Null
    ELSE IF nonBinding(cut) \/ nonBinding(other) THEN FALSE
    ELSE LET cmp == CompareValues(cut.Value, other.Value)
         IN  IF cmp = 0 THEN ~cut.Inclusive \/ ~other.Inclusive
             ELSE cmp < 0

\* Range.less: its assertTrue fails when the Start vectors differ in length
LessPanics(r, other) == Len(r.Start) # Len(other.Start)

RangeLess(r, other) ==
    \E i \in 1..Len(r.Start) : CutLess(r.Start[i], other.Start[i])

\* Range.overlaps: it indexes column 0 of the Stop and Start vectors
OverlapsPanics(r, other) ==
    \/ Len(r.Stop) = 0
    \/ Len(other.Start) = 0
    \/ /\ ~CutLess(r.Stop[1], other.Start[1])
       /\ (Len(other.Stop) = 0 \/ Len(r.Start) = 0)

overlaps(r, other) ==
    IF CutLess(r.Stop[1], other.Start[1]) THEN FALSE
    ELSE IF CutLess(other.Stop[1], r.Start[1]) THEN FALSE
    ELSE TRUE

\* Range.merge: its assertTrue calls
MergePanics(r, other) ==
    \/ Len(r.Start) # Len(other.Start)
    \/ Len(r.Stop) # Len(other.Stop)

merge(r, other) ==
    LET lower == [i \in 1..Len(r.Start) |->
                    LET left  == r.Start[i]
                        right == other.Start[i]
                    IN  IF nonBinding(left) \/ nonBinding(right)
                        THEN RangeCut(Nil, FALSE, FALSE)
                        ELSE IF CutLess(right, left) THEN right ELSE left]
        upper == [i \in 1..Len(r.Stop) |->
                    LET left  == r.Stop[i]
                        right == other.Stop[i]
                    IN  IF nonBinding(left) \/ nonBinding(right)
                        THEN RangeCut(Nil, FALSE, FALSE)
                        ELSE IF CutLess(right, left) THEN left ELSE right]
    IN  [Start |-> lower, Stop |-> upper]

(***************************************************************************)
(* SortRanges: sort.Slice with Range.less; on a slice of at most 12        *)
(* elements sort.Slice is an insertion sort.                               *)
(***************************************************************************)
Swap(s, i, j) == [s EXCEPT ![i] = s[j], ![j] = s[i]]

RECURSIVE InsertDown(_, _)
InsertDown(s, j) ==
    IF j > 1 /\ RangeLess(s[j], s[j - 1])
    THEN InsertDown(Swap(s, j, j - 1), j - 1)
    ELSE s

RECURSIVE InsertionSort(_, _)
InsertionSort(s, i) ==
    IF i > Len(s) THEN s ELSE InsertionSort(InsertDown(s, i), i + 1)

\* the sort compares, so Range.less panics, iff two Start vectors differ in length
SortPanics(rs) == \E i, j \in 1..Len(rs) : LessPanics(rs[i], rs[j])

SortRanges(rs) ==
    IF SortPanics(rs) THEN [panic |-> TRUE, list |-> rs]
    ELSE [panic |-> FALSE, list |-> InsertionSort(rs, 2)]

RECURSIVE MergeLoop(_, _, _, _)
MergeLoop(rs, i, acc, merged) ==
    IF i > Len(rs) THEN [panic |-> FALSE, list |-> Append(merged, acc)]
    ELSE LET rng == rs[i]
         IN  IF OverlapsPanics(acc, rng) THEN [panic |-> TRUE, list |-> merged]
             ELSE IF overlaps(acc, rng)
                  THEN IF MergePanics(acc, rng) THEN [panic |-> TRUE, list |-> merged]
                       ELSE MergeLoop(rs, i + 1, merge(acc, rng), merged)
                  ELSE MergeLoop(rs, i + 1, rng, Append(merged, acc))

MergeOverlappingRanges(rs) ==
    IF Len(rs) <= 1 THEN [panic |-> FALSE, list |-> rs]
    ELSE LET sorted == SortRanges(rs)
         IN  IF sorted.panic THEN [panic |-> TRUE, list |-> <<>>]
             ELSE MergeLoop(sorted.list, 2, sorted.list[1], <<>>)

(***************************************************************************)
(* The searches of a node; indexes are the 0-based indexes of the code.    *)
(***************************************************************************)
RECURSIVE StartLoop(_, _, _)
StartLoop(rng, keys, idx) ==
    IF idx < Len(keys) /\ ~AboveStart(rng, keys[idx + 1])
    THEN StartLoop(rng, keys, idx + 1)
    ELSE idx

linearSearchRangeStart(rng, keys) == StartLoop(rng, keys, 0)

RECURSIVE StopLoop(_, _, _)
StopLoop(rng, keys, idx) ==
    IF idx >= 0 /\ ~BelowStop(rng, keys[idx + 1])
    THEN StopLoop(rng, keys, idx - 1)
    ELSE idx + 1

linearSearchRangeStop(rng, keys) == StopLoop(rng, keys, Len(keys) - 1)

rangeStartSearchFn(rng, keys) == linearSearchRangeStart(rng, keys)

rangeStopSearchFn(rng, keys) == linearSearchRangeStop(rng, keys)

(***************************************************************************)
(* The Range constructors.                                                 *)
(***************************************************************************)
inclusiveBound(tup) == [i \in 1..Len(Types) |-> RangeCut(GetField(tup, i), TRUE, FALSE)]

exclusiveBound(tup) ==
    [inclusiveBound(tup) EXCEPT ![Len(Types)].Inclusive = FALSE]

GreaterRange(start) == [Start |-> exclusiveBound(start), Stop |-> <<>>]

GreaterOrEqualRange(start) == [Start |-> inclusiveBound(start), Stop |-> <<>>]

LesserRange(stop) == [Start |-> <<>>, Stop |-> exclusiveBound(stop)]

LesserOrEqualRange(stop) == [Start |-> <<>>, Stop |-> inclusiveBound(stop)]

OpenRange(start, stop) == [Start |-> exclusiveBound(start), Stop |-> exclusiveBound(stop)]

OpenStartRange(start, stop) == [Start |-> exclusiveBound(start), Stop |-> inclusiveBound(stop)]

OpenStopRange(start, stop) == [Start |-> inclusiveBound(start), Stop |-> exclusiveBound(stop)]

ClosedRange(start, stop) == [Start |-> inclusiveBound(start), Stop |-> inclusiveBound(stop)]

(***************************************************************************)
(* The range engine's inputs and operations.  The inputs are drawn at the  *)
(* start: a list of ranges made by the constructors, or one range and a    *)
(* node of sorted keys.                                                    *)
(***************************************************************************)
\* the ranges with a Start and a Stop bound: both vectors have the
\* descriptor's column count
BoundedRanges ==
    {OpenRange(a, b) : a \in ValueTuples, b \in ValueTuples}
        \cup {OpenStartRange(a, b) : a \in ValueTuples, b \in ValueTuples}
        \cup {OpenStopRange(a, b) : a \in ValueTuples, b \in ValueTuples}
        \cup {ClosedRange(a, b) : a \in ValueTuples, b \in ValueTuples}

ConstructedRanges ==
    {GreaterRange(t) : t \in ValueTuples}
        \cup {GreaterOrEqualRange(t) : t \in ValueTuples}
        \cup {LesserRange(t) : t \in ValueTuples}
        \cup {LesserOrEqualRange(t) : t \in ValueTuples}
        \cup BoundedRanges

RECURSIVE SortedKeys(_)
SortedKeys(S) ==
    IF S = {} THEN <<>>
    ELSE LET least == CHOOSE t \in S : \A u \in S : TupleCompare(t, u) <= 0
         IN  <<least>> \o SortedKeys(S \ {least})

NodeKeys == {SortedKeys(S) : S \in {T \in SUBSET Tuples : Cardinality(T) <= MaxKeys}}

NoOut ==
    [op |-> "none", t |-> <<>>, above |-> FALSE, below |-> FALSE,
     start |-> 0, stop |-> 0, panic |-> FALSE, list |-> <<>>]

rgIdle ==
    /\ ranges = <<>>
    /\ ndKeys = <<>>
    /\ out = NoOut

rgInit ==
    /\ \/ \E n \in 0..1 : ranges \in [1..n -> ConstructedRanges]
       \/ \E n \in 2..MaxRanges : ranges \in [1..n -> BoundedRanges]
    /\ ndKeys \in NodeKeys
    /\ Len(ranges) = 1 \/ ndKeys = <<>>
    /\ out = NoOut

\* r.AboveStart(t) and r.BelowStop(t) for a tuple t
MemberAct ==
    \E t \in Tuples :
        /\ Len(ranges) = 1
        /\ ndKeys = <<>>
        /\ out' = [NoOut EXCEPT !.op = "member", !.t = t,
                                !.above = AboveStart(ranges[1], t),
                                !.below = BelowStop(ranges[1], t)]
        /\ UNCHANGED <<ranges, ndKeys, notRg>>

\* the bounds of the scan of the node: rangeStartSearchFn and rangeStopSearchFn
SearchAct ==
    /\ Len(ranges) = 1
    /\ ndKeys # <<>>
    /\ out' = [NoOut EXCEPT !.op = "search",
                            !.start = rangeStartSearchFn(ranges[1], ndKeys),
                            !.stop = rangeStopSearchFn(ranges[1], ndKeys)]
    /\ UNCHANGED <<ranges, ndKeys, notRg>>

SortAct ==
    /\ ndKeys = <<>>
    /\ LET r == SortRanges(ranges)
       IN  out' = [NoOut EXCEPT !.op = "sort", !.panic = r.panic, !.list = r.list]
    /\ UNCHANGED <<ranges, ndKeys, notRg>>

MergeAct ==
    /\ ndKeys = <<>>
    /\ LET r == MergeOverlappingRanges(ranges)
       IN  out' = [NoOut EXCEPT !.op = "merge", !.panic = r.panic, !.list = r.list]
    /\ UNCHANGED <<ranges, ndKeys, notRg>>

rgNext ==
    \/ MemberAct
    \/ SearchAct
    \/ SortAct
    \/ MergeAct

(***************************************************************************)
(* The AddressMap state machine: a client holds a map c, opens an editor   *)
(* on it, edits, flushes, and goes on with the flushed map.                *)
(***************************************************************************)
NoRes == [done |-> FALSE, map |-> NilNode, err |-> FALSE]

NoIter == [done |-> FALSE, failAt |-> 0, calls |-> <<>>, err |-> FALSE]

NoEdits == [k \in Names |-> [op |-> "none", v |-> ZeroHash]]

Impure == [pure |-> FALSE, base |-> {}, pend |-> {}]

amInit ==
    /\ c = NewEmptyAddressMap
    /\ wr = Editor(NewEmptyAddressMap)
    /\ res = NoRes
    /\ iter = NoIter
    /\ lastEdit = NoEdits
    /\ shadow = [edits |-> <<>>, skipped |-> FALSE]
    /\ hist = [pure |-> TRUE, base |-> {}, pend |-> {}]

\* c.Editor()
EditorAct ==
    /\ wr' = Editor(c)
    /\ res' = NoRes
    /\ lastEdit' = NoEdits
    /\ shadow' = [edits |-> <<>>, skipped |-> FALSE]
    /\ hist' = [hist EXCEPT !.pend = hist.base]
    /\ UNCHANGED <<c, iter, notAm>>

\* wr.Add(name, addr)
AddAct ==
    \E name \in Names, addr \in Addrs :
        /\ ~res.done
        /\ wr' = Add(wr, name, addr)
        /\ lastEdit' = [lastEdit EXCEPT ![name] = [op |-> "put", v |-> addr]]
        /\ shadow' = [shadow EXCEPT !.edits = put(shadow.edits, name, addr)]
        /\ hist' = IF hist.pure /\ (\A p \in hist.pend : p[1] # name)
                   THEN [hist EXCEPT !.pend = hist.pend \cup {<<name, addr>>}]
                   ELSE Impure
        /\ UNCHANGED <<c, res, iter, notAm>>

\* wr.Update(name, addr)
UpdateAct ==
    \E name \in Names, addr \in Addrs :
        /\ ~res.done
        /\ wr' = Update(wr, name, addr)
        /\ lastEdit' = [lastEdit EXCEPT ![name] = [op |-> "put", v |-> addr]]
        /\ shadow' = [shadow EXCEPT !.edits = put(shadow.edits, name, addr)]
        /\ hist' = Impure
        /\ UNCHANGED <<c, res, iter, notAm>>

\* wr.Delete(name); the delete is a no-op when the name is absent from the
\* base and the batch, or already deleted in the batch
DeleteAct ==
    \E name \in Names :
        LET noop == \/ lastEdit[name].op = "del"
                    \/ lastEdit[name].op = "none" /\ ~Has(wr.tree, name)
        IN  /\ ~res.done
            /\ wr' = Delete(wr, name)
            /\ lastEdit' = [lastEdit EXCEPT ![name] = [op |-> "del", v |-> ZeroHash]]
            /\ shadow' = IF noop
                         THEN [shadow EXCEPT !.skipped = TRUE]
                         ELSE [shadow EXCEPT !.edits = delete(shadow.edits, name)]
            /\ hist' = Impure
            /\ UNCHANGED <<c, res, iter, notAm>>

\* wr.Flush(ctx): it succeeds, or the node store fails or ctx is cancelled
FlushAct ==
    \E ioErr \in BOOLEAN :
        LET f == Flush(wr, ioErr)
        IN  /\ ~res.done
            /\ res' = [done |-> TRUE, map |-> f.map, err |-> f.err]
            /\ wr' = f.wr
            /\ UNCHANGED <<c, iter, lastEdit, shadow, hist, notAm>>

\* the client goes on with the flushed map
AdoptAct ==
    /\ res.done
    /\ ~res.err
    /\ c # res.map
    /\ c' = res.map
    /\ iter' = NoIter
    /\ hist' = [hist EXCEPT !.base = hist.pend]
    /\ UNCHANGED <<wr, res, lastEdit, shadow, notAm>>

\* c.IterAll(cb), cb failing at its failAt-th call (0: never)
IterAllAct ==
    \E failAt \in 0..(Count(c) + 1) :
        LET r == IterAll(c, failAt)
        IN  /\ iter' = [done |-> TRUE, failAt |-> failAt, calls |-> r.calls, err |-> r.err]
            /\ UNCHANGED <<c, wr, res, lastEdit, shadow, hist, notAm>>

amNext ==
    \/ EditorAct
    \/ AddAct
    \/ UpdateAct
    \/ DeleteAct
    \/ FlushAct
    \/ AdoptAct
    \/ IterAllAct

(***************************************************************************)
(* `noms root`: runRoot reads the root of the ChunkStore and, given        *)
(* --update, replaces it by a compare-and-swap against the root it read.   *)
(* Several processes run the command against the same store.  A hash is    *)
(* modelled by its string; a command-line argument is a sequence of        *)
(* tokens, "#" being the optional leading mark.                            *)
(***************************************************************************)
NumProcs == 2

\* the most concurrent Commit calls counted for a pending invocation
MaxRivals == 2

Procs == 1..NumProcs

Hashes == {"h0", "h1", "h2", "h3"}

\* db.ReadValue(h): what the database holds under each hash
ValueAt(h) ==
    CASE h = "h0" -> [kind |-> "map", refs |-> <<"commit">>]
      [] h = "h1" -> [kind |-> "map", refs |-> <<"value", "commit">>]
      [] h = "h2" -> [kind |-> "map", refs |-> <<"value">>]
      [] OTHER    -> [kind |-> "string", refs |-> <<>>]

\* the values of the --update flag: unset, or a text with or without the mark
UpdateArgs ==
    {<<>>, <<"#">>} \cup {<<x>> : x \in Hashes \cup {"zz"}}
                    \cup {<<"#", x>> : x \in Hashes \cup {"zz"}}

\* what the user types at the prompt
Inputs == {"y", "Y", "n"}

\* if updateRoot[0] == '#' { updateRoot = updateRoot[1:] }
StripMark(s) == IF s[1] = "#" THEN Tail(s) ELSE s

\* hash.MaybeParse: the text of exactly one hash parses, nothing else does
MaybeParse(s) ==
    IF Len(s) = 1 /\ s[1] \in Hashes
    THEN [ok |-> TRUE, h |-> s[1]]
    ELSE [ok |-> FALSE, h |-> ""]

ToLower_Yes(s) == "y"

ToLower(s) == IF s = "Y" THEN "y" ELSE s

\* types.Map.Any: true iff the callback is true of some entry
MapAny(refs) == \E i \in 1..Len(refs) : refs[i] = "commit"

validate(r) ==
    IF r.kind # "map" THEN FALSE ELSE MapAny(r.refs)

\* ChunkStore.Commit(new, expected): the compare-and-swap of the root
Commit(current, new, expected, ioErr) ==
    IF ioErr THEN [ok |-> FALSE, err |-> TRUE, root |-> current]
    ELSE IF current = expected
         THEN [ok |-> TRUE, err |-> FALSE, root |-> new]
         ELSE [ok |-> FALSE, err |-> FALSE, root |-> current]

NoCall == [expected |-> "", new |-> "", ok |-> FALSE, err |-> FALSE]

NoProc ==
    [pc |-> "idle", updateRoot |-> <<>>, currRoot |-> "", h |-> "",
     input |-> "", ret |-> 0, msg |-> "", committed |-> FALSE, ok |-> FALSE, err |-> FALSE,
     atCommit |-> "", after |-> "", changed |-> FALSE, nRivals |-> 0, rival |-> NoCall]

Return(pr, ret, msg) == [pr EXCEPT !.pc = "done", !.ret = ret, !.msg = msg]

\* the invocations that have read the root and not yet returned
Pending(pr) == pr.pc \in {"validate", "prompt", "commit"}

rtInit ==
    /\ csRoot = "h0"
    /\ procs = [p \in Procs |-> NoProc]

\* a process starts `noms root <db> [--update text]`
RunRootAct(p) ==
    \E args \in UpdateArgs :
        /\ procs[p].pc \in {"idle", "done"}
        /\ procs' = [procs EXCEPT ![p] = [NoProc EXCEPT !.pc = "root", !.updateRoot = args]]
        /\ UNCHANGED <<csRoot, notRt>>

\* currRoot, err := cs.Root(ctx), then the parse of the flag
GetRootAct(p) ==
    \E ioErr \in BOOLEAN :
        LET pr == procs[p]
            text == IF pr.updateRoot = <<>> THEN <<>> ELSE StripMark(pr.updateRoot)
            parsed == MaybeParse(text)
        IN  /\ pr.pc = "root"
            /\ procs' = [procs EXCEPT ![p] =
                  IF ioErr THEN Return(pr, 1, "error getting root.")
                  ELSE IF pr.updateRoot = <<>>
                       THEN Return([pr EXCEPT !.currRoot = csRoot], 0, csRoot)
                  ELSE IF ~parsed.ok
                       THEN Return([pr EXCEPT !.currRoot = csRoot, !.updateRoot = text],
                                   1, "Invalid hash")
                  ELSE [pr EXCEPT !.pc = "validate", !.currRoot = csRoot,
                                  !.updateRoot = text, !.h = parsed.h]]
            /\ UNCHANGED <<csRoot, notRt>>

\* if !validate(ctx, db.Format(), db.ReadValue(ctx, h)) { return 1 }
ValidateAct(p) ==
    LET pr == procs[p]
    IN  /\ pr.pc = "validate"
        /\ procs' = [procs EXCEPT ![p] =
              IF validate(ValueAt(pr.h))
              THEN [pr EXCEPT !.pc = "prompt"]
              ELSE Return(pr, 1, "Root of database must be a map of refs of commits")]
        /\ UNCHANGED <<csRoot, notRt>>

\* the warning and the answer read by fmt.Scanln (one token, read without error)
PromptAct(p) ==
    \E input \in Inputs :
        LET pr == procs[p]
        IN  /\ pr.pc = "prompt"
            /\ procs' = [procs EXCEPT ![p] =
                  IF ToLower(input) # "y"
                  THEN Return([pr EXCEPT !.input = input], 0, "")
                  ELSE [pr EXCEPT !.pc = "commit", !.input = input]]
            /\ UNCHANGED <<csRoot, notRt>>

\* the expected root runRoot hands to Commit
Expected_Reread(pr, current) == current

Expected(pr, current) == pr.currRoot

\* ok, err = cs.Commit(ctx, h, currRoot) and the three ways out of it
CommitAct(p) ==
    \E ioErr \in BOOLEAN :
        LET pr == procs[p]
            r == Commit(csRoot, pr.h, Expected(pr, csRoot), ioErr)
            call == [expected |-> Expected(pr, csRoot), new |-> pr.h,
                     ok |-> r.ok, err |-> r.err]
            mine == [pr EXCEPT !.committed = TRUE, !.ok = r.ok, !.err = r.err,
                               !.atCommit = csRoot, !.after = r.root]
        IN  /\ pr.pc = "commit"
            /\ csRoot' = r.root
            /\ procs' = [q \in Procs |->
                  IF q = p
                  THEN IF r.err THEN Return(mine, 1, "commit error")
                       ELSE IF ~r.ok THEN Return(mine, 1, "Optimistic concurrency failure")
                       ELSE Return(mine, 0, "Success")
                  ELSE IF Pending(procs[q])
                       THEN [procs[q] EXCEPT
                               !.changed = @ \/ r.root # csRoot,
                               !.nRivals = IF @ < MaxRivals THEN @ + 1 ELSE @,
                               !.rival = IF procs[q].nRivals = 0 THEN call ELSE NoCall]
                       ELSE procs[q]]
            /\ UNCHANGED notRt

rtNext ==
    \E p \in Procs :
        \/ RunRootAct(p)
        \/ GetRootAct(p)
        \/ ValidateAct(p)
        \/ PromptAct(p)
        \/ CommitAct(p)

(***************************************************************************)
(* MapChunkCache: the in-memory chunk cache of the remote chunk store's    *)
(* client.  A chunk is modelled by its data, its hash by a value computed  *)
(* from the data without collisions.  The cache holds a map from hash to   *)
(* chunk and the map of the chunks pending flush; every operation runs     *)
(* under the cache's lock, so each is one step.                            *)
(***************************************************************************)
NumChunks == 3

Chunks == 1..NumChunks

\* chunks.Chunk.Hash
ChunkHash(chk) == <<"sha", chk>>

ChunkHashes == {ChunkHash(chk) : chk \in Chunks}

EmptyChunkMap == [h \in {} |-> 0]

newMapChunkCache == [hashToChunk |-> EmptyChunkMap, toFlush |-> EmptyChunkMap]

\* m with chk under its hash
WithChunk(m, chk) ==
    [h \in DOMAIN m \cup {ChunkHash(chk)} |-> IF h = ChunkHash(chk) THEN chk ELSE m[h]]

\* the insertion of one chunk: a chunk already held is skipped
PutOne_Always(mc, chk) ==
    [hashToChunk |-> WithChunk(mc.hashToChunk, chk),
     toFlush |-> WithChunk(mc.toFlush, chk)]

PutOne(mc, chk) ==
    IF ChunkHash(chk) \in DOMAIN mc.hashToChunk
    THEN mc
    ELSE [hashToChunk |-> WithChunk(mc.hashToChunk, chk),
          toFlush |-> WithChunk(mc.toFlush, chk)]

\* Put(chunks[]): the chunks are inserted one after the other
RECURSIVE MccPut(_, _)
MccPut(mc, chks) ==
    IF chks = <<>> THEN mc ELSE MccPut(PutOne(mc, Head(chks)), Tail(chks))

\* PutChunk(chunk): true iff the chunk was new
PutChunk(mc, chk) ==
    [cache |-> PutOne(mc, chk), ret |-> ChunkHash(chk) \notin DOMAIN mc.hashToChunk]

\* Get(hashes): the subset present
MccGet(mc, hashes) ==
    [h \in hashes \cap DOMAIN mc.hashToChunk |-> mc.hashToChunk[h]]

\* Has(hashes): the subset not present
MccHas(mc, hashes) == {h \in hashes : h \notin DOMAIN mc.hashToChunk}

\* GetAndClearChunksToFlush: the pending chunks, and the cache without them pending
GetAndClear_DropsChunks(mc) ==
    [cache |-> [hashToChunk |-> [h \in DOMAIN mc.hashToChunk \ DOMAIN mc.toFlush |->
                                     mc.hashToChunk[h]],
                toFlush |-> EmptyChunkMap],
     ret |-> mc.toFlush]

GetAndClear_KeepsPending(mc) == [cache |-> mc, ret |-> mc.toFlush]

GetAndClearChunksToFlush(mc) ==
    [cache |-> [mc EXCEPT !.toFlush = EmptyChunkMap], ret |-> mc.toFlush]

\* the batches given to Put: up to two chunks, in either order, repeats included
ChunkBatches == {<<>>} \cup {<<a>> : a \in Chunks} \cup {<<a, b>> : a, b \in Chunks}

SeqRange(s) == {s[i] : i \in 1..Len(s)}

NoMccOut ==
    [op |-> "none", chks |-> {}, hashes |-> {}, ret |-> FALSE,
     map |-> EmptyChunkMap, absent |-> {}]

ccInit ==
    /\ mcc = newMapChunkCache
    /\ mccOut = NoMccOut
    /\ ever = {}
    /\ fresh = {}

MccPutAct ==
    \E chks \in ChunkBatches :
        /\ mcc' = MccPut(mcc, chks)
        /\ mccOut' = [NoMccOut EXCEPT !.op = "Put", !.chks = SeqRange(chks)]
        /\ ever' = ever \cup SeqRange(chks)
        /\ fresh' = fresh \cup (SeqRange(chks) \ ever)
        /\ UNCHANGED notCc

MccPutChunkAct ==
    \E chk \in Chunks :
        LET r == PutChunk(mcc, chk)
        IN  /\ mcc' = r.cache
            /\ mccOut' = [NoMccOut EXCEPT !.op = "PutChunk", !.chks = {chk}, !.ret = r.ret]
            /\ ever' = ever \cup {chk}
            /\ fresh' = fresh \cup ({chk} \ ever)
            /\ UNCHANGED notCc

MccGetAct ==
    \E hashes \in SUBSET ChunkHashes :
        /\ mccOut' = [NoMccOut EXCEPT !.op = "Get", !.hashes = hashes,
                                      !.map = MccGet(mcc, hashes)]
        /\ UNCHANGED <<mcc, ever, fresh, notCc>>

MccHasAct ==
    \E hashes \in SUBSET ChunkHashes :
        /\ mccOut' = [NoMccOut EXCEPT !.op = "Has", !.hashes = hashes,
                                      !.absent = MccHas(mcc, hashes)]
        /\ UNCHANGED <<mcc, ever, fresh, notCc>>

MccFlushAct ==
    LET r == GetAndClearChunksToFlush(mcc)
    IN  /\ mcc' = r.cache
        /\ mccOut' = [NoMccOut EXCEPT !.op = "GetAndClearChunksToFlush", !.map = r.ret,
                                      !.chks = fresh]
        /\ fresh' = {}
        /\ UNCHANGED <<ever, notCc>>

ccNext ==
    \/ MccPutAct
    \/ MccPutChunkAct
    \/ MccGetAct
    \/ MccHasAct
    \/ MccFlushAct

(***************************************************************************)
(* doltIndex.getDurableState: the durable state of an index is cached in   *)
(* an atomic slot under the table's data cache key.  Several sessions call *)
(* it on the same index while the table moves from one version to the      *)
(* next; a data cache key is modelled by the version it stands for.        *)
(***************************************************************************)
NumCallers == 2

MaxVersion == 3

Callers == 1..NumCallers

Versions == 1..MaxVersion

IndexIds == {"PRIMARY", "idx_a"}

\* the pointer a cachedDurableIndexes holds before the first store
NilState == [nil |-> TRUE, key |-> 0, Primary |-> <<>>, Secondary |-> <<>>]

\* t.GetRowData and t.GetIndexRowData of the table at a version
GetRowData(version) == <<"rows", version>>

GetIndexRowData(version, id) == <<id, version>>

\* cachedDurableIndexes.load and store
load(slot) == slot

store(slot, v) == v

\* ret != nil && ret.key == newkey
CacheHit_AnyKey(ret, newkey) == ~ret.nil

CacheHit(ret, newkey) == ~ret.nil /\ ret.key = newkey

\* the state built from the table
NewState_NoSecondary(id, newkey, version) ==
    [nil |-> FALSE, key |-> newkey, Primary |-> GetRowData(version),
     Secondary |-> <<>>]

NewState(id, newkey, version) ==
    [nil |-> FALSE, key |-> newkey, Primary |-> GetRowData(version),
     Secondary |-> IF id = "PRIMARY" THEN GetRowData(version)
                   ELSE GetIndexRowData(version, id)]

NoCaller ==
    [pc |-> "idle", newkey |-> 0, cancache |-> FALSE, ret |-> NilState, err |-> FALSE,
     fromCache |-> FALSE, held |-> NilState, stored |-> FALSE, after |-> NilState]

Done(cl, ret) == [cl EXCEPT !.pc = "done", !.ret = ret]

Failed(cl) == [cl EXCEPT !.pc = "done", !.err = TRUE, !.ret = NilState]

dsInit ==
    /\ tblVersion = 1
    /\ diId \in IndexIds
    /\ diCache = NilState
    /\ callers = [t \in Callers |-> NoCaller]

dsIdle ==
    /\ tblVersion = 1
    /\ diId = "PRIMARY"
    /\ diCache = NilState
    /\ callers = [t \in Callers |-> NoCaller]

\* another session's write moves the table to its next version
TableChangeAct ==
    /\ tblVersion < MaxVersion
    /\ tblVersion' = tblVersion + 1
    /\ UNCHANGED <<diId, diCache, callers, notDs>>

\* newkey, cancache, err = ti.DataCacheKey(ctx)
DataCacheKeyAct(t) ==
    \E cancache \in BOOLEAN, err \in BOOLEAN :
        /\ callers[t].pc \in {"idle", "done"}
        /\ callers' = [callers EXCEPT ![t] =
              IF err THEN Failed(NoCaller)
              ELSE [NoCaller EXCEPT !.pc = "load", !.newkey = tblVersion,
                                    !.cancache = cancache]]
        /\ UNCHANGED <<tblVersion, diId, diCache, notDs>>

\* if cancache { ret = di.cache.load(); if ret != nil && ret.key == newkey { return } }
LoadAct(t) ==
    LET cl == callers[t]
        ret == load(diCache)
    IN  /\ cl.pc = "load"
        /\ callers' = [callers EXCEPT ![t] =
              IF cl.cancache /\ CacheHit(ret, cl.newkey)
              THEN Done([cl EXCEPT !.fromCache = TRUE, !.held = ret], ret)
              ELSE [cl EXCEPT !.pc = "build"]]
        /\ UNCHANGED <<tblVersion, diId, diCache, notDs>>

\* ti.DoltTable, t.GetRowData, t.GetIndexRowData and the new state
BuildAct(t) ==
    \E errAt \in {"none", "DoltTable", "GetRowData", "GetIndexRowData"} :
        LET cl == callers[t]
        IN  /\ cl.pc = "build"
            /\ errAt = "GetIndexRowData" => diId # "PRIMARY"
            /\ callers' = [callers EXCEPT ![t] =
                  IF errAt # "none" THEN Failed(cl)
                  ELSE [cl EXCEPT !.pc = "store",
                                  !.ret = NewState(diId, cl.newkey, tblVersion)]]
            /\ UNCHANGED <<tblVersion, diId, diCache, notDs>>

\* if cancache { di.cache.store(ret) }; return ret, nil
StoreAct(t) ==
    LET cl == callers[t]
    IN  /\ cl.pc = "store"
        /\ diCache' = IF cl.cancache THEN store(diCache, cl.ret) ELSE diCache
        /\ callers' = [callers EXCEPT ![t] =
              Done([cl EXCEPT !.stored = TRUE, !.held = diCache, !.after = diCache'], cl.ret)]
        /\ UNCHANGED <<tblVersion, diId, notDs>>

dsNext ==
    \/ TableChangeAct
    \/ \E t \in Callers :
        \/ DataCacheKeyAct(t)
        \/ LoadAct(t)
        \/ BuildAct(t)
        \/ StoreAct(t)

(***************************************************************************)
(* durableIndexState.sqlRowConverter: the row converter and the projection *)
(* it was built for are cached in two atomic slots of the state, which the *)
(* sessions share.  Each Load and each Store is one step.  A converter is  *)
(* modelled by the projection it was built for.                            *)
(***************************************************************************)
NumSessions == 2

Sessions == 1..NumSessions

\* the projection vectors ([]uint64) the calls are given
Projections == {<<1>>, <<2>>, <<1, 2>>}

\* what atomic.Value.Load returns before the first Store
NilValue == [nil |-> TRUE, proj |-> <<>>]

Value(proj) == [nil |-> FALSE, proj |-> proj]

RECURSIVE EqualFrom(_, _, _)
EqualFrom(x, y, i) ==
    IF ~(i <= Len(x) /\ i <= Len(y)) THEN TRUE
    ELSE IF x[i] # y[i] THEN FALSE
    ELSE EqualFrom(x, y, i + 1)

projectionsEqual(x, y) ==
    IF Len(x) # Len(y) THEN FALSE ELSE EqualFrom(x, y, 1)

\* NewKVToSqlRowConverterForCols(i.Format(), i.Schema(), proj)
NewKVToSqlRowConverterForCols(proj) == Value(proj)

NoConvCall ==
    [pc |-> "idle", proj |-> <<>>, cachedProjections |-> NilValue,
     cachedConverter |-> NilValue, panic |-> FALSE]

rcInit ==
    /\ slotProjections = NilValue
    /\ slotConverter = NilValue
    /\ convCalls = [t \in Sessions |-> NoConvCall]

\* a session calls s.sqlRowConverter(i, proj)
ConvCallAct(t) ==
    \E proj \in Projections :
        /\ convCalls[t].pc \in {"idle", "done"}
        /\ convCalls' = [convCalls EXCEPT ![t] =
              [NoConvCall EXCEPT !.pc = "loadProjections", !.proj = proj]]
        /\ UNCHANGED <<slotProjections, slotConverter, notRc>>

\* cachedProjections := s.cachedProjections.Load()
LoadProjectionsAct(t) ==
    /\ convCalls[t].pc = "loadProjections"
    /\ convCalls' = [convCalls EXCEPT ![t].pc = "loadConverter",
                                      ![t].cachedProjections = slotProjections]
    /\ UNCHANGED <<slotProjections, slotConverter, notRc>>

\* cachedConverter := s.cachedSqlRowConverter.Load(), and the test of the pair;
\* the type assertion on a nil cachedProjections panics
LoadConverterAct(t) ==
    LET cl == convCalls[t]
        cachedConverter == slotConverter
    IN  /\ cl.pc = "loadConverter"
        /\ convCalls' = [convCalls EXCEPT ![t] =
              IF cachedConverter.nil
              THEN [cl EXCEPT !.pc = "storeConverter",
                              !.cachedConverter = NewKVToSqlRowConverterForCols(cl.proj)]
              ELSE IF cl.cachedProjections.nil
              THEN [cl EXCEPT !.pc = "done", !.panic = TRUE, !.cachedConverter = cachedConverter]
              ELSE IF ~projectionsEqual(cl.proj, cl.cachedProjections.proj)
              THEN [cl EXCEPT !.pc = "storeConverter",
                              !.cachedConverter = NewKVToSqlRowConverterForCols(cl.proj)]
              ELSE [cl EXCEPT !.pc = "done", !.cachedConverter = cachedConverter]]
        /\ UNCHANGED <<slotProjections, slotConverter, notRc>>

\* s.cachedSqlRowConverter.Store(cachedConverter)
StoreConverterAct(t) ==
    /\ convCalls[t].pc = "storeConverter"
    /\ slotConverter' = convCalls[t].cachedConverter
    /\ convCalls' = [convCalls EXCEPT ![t].pc = "storeProjections"]
    /\ UNCHANGED <<slotProjections, notRc>>

\* s.cachedProjections.Store(proj), and the return
StoreProjectionsAct(t) ==
    /\ convCalls[t].pc = "storeProjections"
    /\ slotProjections' = Value(convCalls[t].proj)
    /\ convCalls' = [convCalls EXCEPT ![t].pc = "done"]
    /\ UNCHANGED <<slotConverter, notRc>>

rcNext ==
    \E t \in Sessions :
        \/ ConvCallAct(t)
        \/ LoadProjectionsAct(t)
        \/ LoadConverterAct(t)
        \/ StoreConverterAct(t)
        \/ StoreProjectionsAct(t)

(***************************************************************************)
(* SplitNullsFromRange.  A sql.Range is a Go slice of column expressions:  *)
(* a pointer to a backing array, a length and a capacity.  append writes   *)
(* into the backing array when the capacity allows and allocates a larger  *)
(* array otherwise, so two slices with the same pointer share what is      *)
(* appended in place.  The heap is the sequence of the backing arrays.     *)
(* A column expression is a pair of cuts; the cuts are ordered BelowNull,  *)
(* AboveNull, then below and above each value, then AboveAll.              *)
(***************************************************************************)
MaxCols == 4

\* the greatest value of a column bound
MaxBound == 2

BelowNull == [kind |-> "BelowNull", v |-> 0]

AboveNull == [kind |-> "AboveNull", v |-> 0]

AboveAll == [kind |-> "AboveAll", v |-> 0]

Below(v) == [kind |-> "Below", v |-> v]

Above(v) == [kind |-> "Above", v |-> v]

\* the place of a cut in the order of the cuts
CutRank(cut) ==
    CASE cut.kind = "BelowNull" -> 0
      [] cut.kind = "AboveNull" -> 1
      [] cut.kind = "Below"     -> 2 * cut.v
      [] cut.kind = "Above"     -> 2 * cut.v + 1
      [] OTHER                  -> 2 * MaxBound + 4

RangeColumnExpr(lower, upper) == [LowerBound |-> lower, UpperBound |-> upper]

\* sql.NullRangeColumnExpr and sql.NotNullRangeColumnExpr
NullRangeColumnExpr == RangeColumnExpr(BelowNull, AboveNull)

NotNullRangeColumnExpr == RangeColumnExpr(AboveNull, AboveAll)

\* RangeColumnExpr.TryIntersect: the greater lower bound and the lesser upper
\* bound, and whether anything lies between them
TryIntersect(rce, other) ==
    LET lower == IF CutRank(rce.LowerBound) >= CutRank(other.LowerBound)
                 THEN rce.LowerBound ELSE other.LowerBound
        upper == IF CutRank(rce.UpperBound) <= CutRank(other.UpperBound)
                 THEN rce.UpperBound ELSE other.UpperBound
    IN  [expr |-> RangeColumnExpr(lower, upper), ok |-> CutRank(lower) < CutRank(upper)]

\* a nil slice, and the slot of a backing array that was never written
NilSlice == [arr |-> 0, len |-> 0, cap |-> 0]

Unset == [LowerBound |-> [kind |-> "unset", v |-> 0], UpperBound |-> [kind |-> "unset", v |-> 0]]

\* the capacity of the array append allocates (runtime growslice, below 256
\* elements): twice the old capacity, or what is needed if that is more
GrowCap(oldCap, needed) == IF needed > 2 * oldCap THEN needed ELSE 2 * oldCap

\* append(s, x): in place when len < cap
SliceAppend(heap, s, x) ==
    IF s.len < s.cap
    THEN [heap |-> [heap EXCEPT ![s.arr][s.len + 1] = x],
          slice |-> [s EXCEPT !.len = s.len + 1]]
    ELSE LET newCap == GrowCap(s.cap, s.len + 1)
             arr == [i \in 1..newCap |->
                        IF i <= s.len THEN heap[s.arr][i]
                        ELSE IF i = s.len + 1 THEN x ELSE Unset]
         IN  [heap |-> Append(heap, arr),
              slice |-> [arr |-> Len(heap) + 1, len |-> s.len + 1, cap |-> newCap]]

\* for j := range part { part[j] = append(part[j], x) }, part being rngs[from..to]
RECURSIVE AppendEach(_, _, _, _, _)
AppendEach(heap, rngs, j, to, x) ==
    IF j > to THEN [heap |-> heap, res |-> rngs]
    ELSE LET r == SliceAppend(heap, rngs[j], x)
         IN  AppendEach(r.heap, [rngs EXCEPT ![j] = r.slice], j + 1, to, x)

\* the body of the loop over the column expressions
SplitColumn(st, rce) ==
    IF rce.LowerBound = BelowNull
    THEN LET withnull == TryIntersect(rce, NullRangeColumnExpr)
             withoutnull == TryIntersect(rce, NotNullRangeColumnExpr)
             n == Len(st.res)
             both == withoutnull.ok /\ withnull.ok
             rngs == IF both THEN st.res \o st.res ELSE st.res
             s1 == IF withnull.ok
                   THEN AppendEach(st.heap, rngs, 1, n, withnull.expr)
                   ELSE [heap |-> st.heap, res |-> rngs]
         IN  IF withoutnull.ok
             THEN AppendEach(s1.heap, s1.res, IF both THEN n + 1 ELSE 1,
                             IF both THEN 2 * n ELSE n, withoutnull.expr)
             ELSE s1
    ELSE AppendEach(st.heap, st.res, 1, Len(st.res), rce)

RECURSIVE SplitLoop(_, _, _)
SplitLoop(st, r, i) ==
    IF i > Len(r) THEN st ELSE SplitLoop(SplitColumn(st, r[i]), r, i + 1)

\* the column expressions a slice shows
SliceValue(heap, s) == IF s.len = 0 THEN <<>> ELSE SubSeq(heap[s.arr], 1, s.len)

SplitNullsFromRange(r) ==
    LET st == SplitLoop([heap |-> <<>>, res |-> <<NilSlice>>], r, 1)
    IN  [j \in 1..Len(st.res) |-> SliceValue(st.heap, st.res[j])]

\* the column expressions of the ranges split: all values, NULL or at most a
\* value, not NULL, and between two values
ColumnExprs ==
    {RangeColumnExpr(BelowNull, AboveAll), NotNullRangeColumnExpr,
     NullRangeColumnExpr}
        \cup {RangeColumnExpr(BelowNull, Above(v)) : v \in 1..MaxBound}
        \cup {RangeColumnExpr(Below(1), Above(v)) : v \in 1..MaxBound}

SqlRanges == UNION {[1..n -> ColumnExprs] : n \in 0..MaxCols}

NoSplit == [done |-> FALSE, res |-> <<>>]

snInit ==
    /\ sqlRange \in SqlRanges
    /\ snOut = NoSplit

snIdle ==
    /\ sqlRange = <<>>
    /\ snOut = NoSplit

SplitNullsAct ==
    /\ snOut' = [done |-> TRUE, res |-> SplitNullsFromRange(sqlRange)]
    /\ UNCHANGED <<sqlRange, notSn>>

snNext == SplitNullsAct

(***************************************************************************)
(* prollySpatialRanges.  The coordinates of a point have CoordBits bits    *)
(* (64 in the program), a Z-value interleaves the bits of the two          *)
(* coordinates, and the cell of a Z-value at a level is the level and the  *)
(* Z-value with its 2 * level low bits cleared; the levels run from 0 to   *)
(* CoordBits.                                                              *)
(***************************************************************************)
CoordBits == 2

Coords == 0..(2 ^ CoordBits - 1)

Points == Coords \X Coords

Levels == 0..CoordBits

\* the bounds of the sql.Range: points, or a key of another type
CutKeys == Points \cup {<<"notPoint">>}

IsPoint(key) == Len(key) = 2

\* ZValue: the bits of x and y interleaved, those of y the more significant
RECURSIVE Interleave(_, _, _)
Interleave(x, y, bits) ==
    IF bits = 0 THEN 0
    ELSE (x % 2) + 2 * (y % 2) + 4 * Interleave(x \div 2, y \div 2, bits - 1)

ZValue(p) == Interleave(p[1], p[2], CoordBits)

\* the Z-values of the points of the rectangle
ZValuesInside(minPoint, maxPoint) ==
    {ZValue(<<x, y>>) : x \in minPoint[1]..maxPoint[1], y \in minPoint[2]..maxPoint[2]}

\* SplitZRanges: the maximal runs of consecutive Z-values inside the rectangle,
\* in ascending order
RECURSIVE RunsFrom(_, _, _)
RunsFrom(inside, z, zMax) ==
    IF z > zMax THEN <<>>
    ELSE IF z \notin inside THEN RunsFrom(inside, z + 1, zMax)
    ELSE LET last == CHOOSE e \in z..zMax :
                         /\ \A w \in z..e : w \in inside
                         /\ e = zMax \/ (e + 1) \notin inside
         IN  <<<<z, last>>>> \o RunsFrom(inside, last + 1, zMax)

SplitZRanges(zRange, minPoint, maxPoint) ==
    RunsFrom(ZValuesInside(minPoint, maxPoint), zRange[1], zRange[2])

\* ZMask(level, z): the val.Cell of z at the level
ZMask(level, z) == [level |-> level, z |-> (z \div (4 ^ level)) * (4 ^ level)]

\* val.Cell{}
ZeroCell == [level |-> 0, z |-> 0]

Bound(cell) == [Binding |-> TRUE, Inclusive |-> TRUE, Value |-> cell]

CellRange(minCell, maxCell) ==
    [Fields |-> <<[Exact |-> FALSE, Lo |-> Bound(minCell), Hi |-> Bound(maxCell)]>>]

\* if i != 0 && minCell == prevMinCell && maxCell == prevMaxCell { continue }
SameAsPrev_Never(i, minCell, maxCell, prevMinCell, prevMaxCell) == FALSE

SameAsPrev(i, minCell, maxCell, prevMinCell, prevMaxCell) ==
    i # 0 /\ minCell = prevMinCell /\ maxCell = prevMaxCell

\* the loop over the Z-ranges at one level; i is the 0-based index of the code
RECURSIVE ZRangeLoop(_, _, _, _, _, _)
ZRangeLoop(level, zRanges, i, prevMinCell, prevMaxCell, pRanges) ==
    IF i >= Len(zRanges) THEN pRanges
    ELSE LET minCell == ZMask(level, zRanges[i + 1][1])
             maxCell == ZMask(level, zRanges[i + 1][2])
         IN  IF SameAsPrev(i, minCell, maxCell, prevMinCell, prevMaxCell)
             THEN ZRangeLoop(level, zRanges, i + 1, prevMinCell, prevMaxCell, pRanges)
             ELSE ZRangeLoop(level, zRanges, i + 1, minCell, maxCell,
                             Append(pRanges, CellRange(minCell, maxCell)))

RECURSIVE LevelLoop(_, _, _)
LevelLoop(level, zRanges, pRanges) ==
    IF level > CoordBits THEN pRanges
    ELSE LevelLoop(level + 1, zRanges,
                   ZRangeLoop(level, zRanges, 0, ZeroCell, ZeroCell, pRanges))

prollySpatialRanges(lower, upper) ==
    IF ~IsPoint(lower) \/ ~IsPoint(upper)
    THEN [err |-> TRUE, pRanges |-> <<>>]
    ELSE [err |-> FALSE,
          pRanges |-> LevelLoop(0, SplitZRanges(<<ZValue(lower), ZValue(upper)>>,
                                                lower, upper), <<>>)]

NoSpatial == [done |-> FALSE, err |-> FALSE, pRanges |-> <<>>]

\* the bounding boxes: the lower point is at most the upper one on both axes
spInit ==
    /\ bbox \in {b \in CutKeys \X CutKeys :
                    IsPoint(b[1]) /\ IsPoint(b[2]) =>
                        b[1][1] <= b[2][1] /\ b[1][2] <= b[2][2]}
    /\ spOut = NoSpatial

spIdle ==
    /\ bbox = <<<<0, 0>>, <<0, 0>>>>
    /\ spOut = NoSpatial

SpatialRangesAct ==
    /\ LET r == prollySpatialRanges(bbox[1], bbox[2])
       IN  spOut' = [done |-> TRUE, err |-> r.err, pRanges |-> r.pRanges]
    /\ UNCHANGED <<bbox, notSp>>

spNext == SpatialRangesAct

(***************************************************************************)
(* ChunkRelations and the walk of the archive command over the history.    *)
(* ChunkRelations is a union-find over chunk addresses: every address that *)
(* was added is mapped to the address that stands for its group, the least *)
(* of the group.                                                           *)
(***************************************************************************)
NumHashes == 5

MaxAdds == 3

\* a commit has at most two parents
MaxParents == 2

MaxDeltas == 2

\* the levels of the root nodes
RootLevels == {0, 1}

ChunkAddresses == 1..NumHashes

NewChunkRelations == [h \in {} |-> h]

Find(g, h) == g[h]

Insert(g, h) ==
    IF h \in DOMAIN g THEN g
    ELSE [x \in DOMAIN g \cup {h} |-> IF x = h THEN h ELSE g[x]]

Least(a, b) == IF a < b THEN a ELSE b

Union_NoMerge(g, a, b) == g

Union(g, a, b) ==
    LET ra == Find(g, a)
        rb == Find(g, b)
    IN  [x \in DOMAIN g |-> IF g[x] \in {ra, rb} THEN Least(ra, rb) ELSE g[x]]

ChunkRelationsAdd(g, a, b) == Union(Insert(Insert(g, a), b), a, b)

ChunkRelationsCount(g) == Cardinality(DOMAIN g)

Group(g, a) == {h \in DOMAIN g : Find(g, h) = Find(g, a)}

Groups(g) == {Group(g, a) : a \in DOMAIN g}

\* tree.AddrDiff: the addresses of two chunks that take each other's place
AddrDiffs == {d \in [From : ChunkAddresses, To : ChunkAddresses] : d.From # d.To}

\* the callback given to ChunkAddressDiffOrderedTrees
DiffCallback(g, diff) == ChunkRelationsAdd(g, diff.From, diff.To)

\* a diff.TableDelta, as far as relateCommitToParentChunks looks at it: what
\* HasSchemaChanged, HasPrimaryKeySetChanged and HasDataChanged answer, and
\* the levels of the root nodes of the two row data maps
Answers == {"no", "yes", "err"}

TableDeltas ==
    [schChg : Answers, pkChg : BOOLEAN, changed : Answers,
     fromLevel : RootLevels, toLevel : RootLevels]

NoDelta == [schChg |-> "none"]

SameLevel_Always(d) == TRUE

SameLevel(d) == d.fromLevel = d.toLevel

\* the body of the loop over the deltas: return an error, go on with the next
\* delta, or walk the two maps.  The error of GetRowData is not looked at.
DeltaOutcome(d) ==
    IF d.schChg = "err" THEN "err"
    ELSE IF d.schChg = "yes" THEN "continue"
    ELSE IF d.pkChg THEN "continue"
    ELSE IF d.changed = "err" THEN "err"
    ELSE IF d.changed = "no" THEN "continue"
    ELSE IF ~SameLevel(d) THEN "continue"
    ELSE "walk"

arInit ==
    /\ groupings = NewChunkRelations
    /\ added = {}
    /\ arPc = "iter"
    /\ parentsLeft = 0
    /\ deltasLeft = 0
    /\ delta = NoDelta
    /\ walked = FALSE
    /\ arOut = -1

\* the end of one turn of the loop over the deltas, and with the last delta
\* of one turn of the loop over the parents
NextDelta ==
    /\ deltasLeft' = deltasLeft - 1
    /\ parentsLeft' = IF deltasLeft = 1 THEN parentsLeft - 1 ELSE parentsLeft
    /\ arPc' = IF deltasLeft > 1 THEN "deltas"
               ELSE IF parentsLeft > 1 THEN "parents"
               ELSE "iter"

\* historicalFuzzyMatching: one turn of the loop over the commits, up to the
\* loop over the parents of the commit; at the end of the history Exec
\* prints the count
NextCommitAct ==
    /\ arPc = "iter"
    /\ \E o \in {"EOF", "iterErr", "notCommit", "ghost", "rootErr", "commit"},
          n \in 0..MaxParents :
          /\ arPc' = CASE o = "EOF" -> "done"
                       [] o \in {"iterErr", "ghost", "rootErr"} -> "failed"
                       [] o = "notCommit" -> "iter"
                       [] OTHER -> IF n = 0 THEN "iter" ELSE "parents"
          /\ parentsLeft' = IF o = "commit" THEN n ELSE 0
          /\ arOut' = IF o = "EOF" THEN ChunkRelationsCount(groupings) ELSE arOut
    /\ deltasLeft' = 0
    /\ delta' = NoDelta
    /\ walked' = FALSE
    /\ UNCHANGED <<groupings, added>>
    /\ UNCHANGED notAr

\* one turn of the loop over the parents, up to the loop over the deltas
ParentAct ==
    /\ arPc = "parents"
    /\ \E o \in {"parentErr", "ghost", "rootErr", "deltasErr", "ok"},
          k \in 0..MaxDeltas :
          /\ arPc' = IF o # "ok" THEN "failed"
                     ELSE IF k > 0 THEN "deltas"
                     ELSE IF parentsLeft > 1 THEN "parents"
                     ELSE "iter"
          /\ parentsLeft' = IF o = "ok" /\ k = 0 THEN parentsLeft - 1 ELSE parentsLeft
          /\ deltasLeft' = IF o = "ok" THEN k ELSE 0
    /\ delta' = NoDelta
    /\ walked' = FALSE
    /\ UNCHANGED <<groupings, added, arOut>>
    /\ UNCHANGED notAr

\* one turn of the loop over the deltas, up to the walk
DeltaAct ==
    /\ arPc = "deltas"
    /\ \E d \in TableDeltas :
          /\ delta' = d
          /\ walked' = (DeltaOutcome(d) = "walk")
          /\ CASE DeltaOutcome(d) = "err" ->
                    arPc' = "failed" /\ UNCHANGED <<parentsLeft, deltasLeft>>
               [] DeltaOutcome(d) = "walk" ->
                    arPc' = "walk" /\ UNCHANGED <<parentsLeft, deltasLeft>>
               [] OTHER -> NextDelta
    /\ UNCHANGED <<groupings, added, arOut>>
    /\ UNCHANGED notAr

\* ChunkAddressDiffOrderedTrees reports one more pair of addresses
CallbackAct ==
    /\ arPc = "walk"
    /\ \E diff \in AddrDiffs :
          /\ Cardinality(added \cup {{diff.From, diff.To}}) <= MaxAdds
          /\ groupings' = DiffCallback(groupings, diff)
          /\ added' = added \cup {{diff.From, diff.To}}
    /\ UNCHANGED <<arPc, parentsLeft, deltasLeft, delta, walked, arOut>>
    /\ UNCHANGED notAr

\* ChunkAddressDiffOrderedTrees returns
WalkEndAct ==
    /\ arPc = "walk"
    /\ \E err \in BOOLEAN :
          IF err THEN arPc' = "failed" /\ UNCHANGED <<parentsLeft, deltasLeft>>
          ELSE NextDelta
    /\ UNCHANGED <<groupings, added, delta, walked, arOut>>
    /\ UNCHANGED notAr

arNext == NextCommitAct \/ ParentAct \/ DeltaAct \/ CallbackAct \/ WalkEndAct

(***************************************************************************)
(* One addrMapBuilder used through the NodeBuilder interface: StartNode,   *)
(* HasCapacity, AddItems, Count and Build in any order.                    *)
(***************************************************************************)
MaxItems == 2

BuilderLevels == {0, 1}

\* a key that with one address leaves room for a key of two bytes and an
\* address, and no more
BigKey == <<255 + (MaxVectorOffset - 2 * AddrLen - 2)>>

BuilderKeys == {<<1>>, <<1, 2>>, <<1, 2, 3>>, BigKey}

\* the subtree counts given to AddItems
SubtreeCounts == {1, 3}

NoBuild == [op |-> "none"]

bdIdle ==
    /\ builder = newAddrMapBuilder(0)
    /\ given = <<>>
    /\ bldOut = NoBuild

bdInit ==
    /\ builder \in {newAddrMapBuilder(level) : level \in BuilderLevels}
    /\ given = <<>>
    /\ bldOut = NoBuild

StartNodeAct ==
    /\ builder' = StartNode(builder)
    /\ given' = <<>>
    /\ bldOut' = [op |-> "StartNode"]
    /\ UNCHANGED notBd

HasCapacityAct ==
    /\ \E key \in BuilderKeys, value \in Addrs :
          bldOut' = [op |-> "HasCapacity", key |-> key, value |-> value,
                     ok |-> HasCapacity(builder, key, value)]
    /\ UNCHANGED <<builder, given>>
    /\ UNCHANGED notBd

AddItemsAct ==
    /\ Len(given) < MaxItems
    /\ \E key \in BuilderKeys, value \in Addrs, subtree \in SubtreeCounts :
          /\ builder' = AddItems(builder, key, value, subtree)
          /\ given' = Append(given, [key |-> key, value |-> value, subtree |-> subtree])
    /\ bldOut' = [op |-> "AddItems"]
    /\ UNCHANGED notBd

BuilderCountAct ==
    /\ bldOut' = [op |-> "Count", n |-> BuilderCount(builder)]
    /\ UNCHANGED <<builder, given>>
    /\ UNCHANGED notBd

BuildNodeAct ==
    /\ bldOut' = [op |-> "Build", node |-> Build(builder).node, of |-> given]
    /\ builder' = Build(builder).nb
    /\ given' = <<>>
    /\ UNCHANGED notBd

bdNext == StartNodeAct \/ HasCapacityAct \/ AddItemsAct \/ BuilderCountAct \/ BuildNodeAct

(***************************************************************************)
(* dolt cherry-pick: cherryPick and getDoltStatus.  The statements go to   *)
(* the queryist one after the other, and each may fail.                    *)
(***************************************************************************)
MaxRows == 4

\* apr.Arg(0)
CherryStrs == {"", "abc"}

\* what getTinyIntColAsBool makes of the staged column of a dolt_status row
StagedCols == {"true", "false", "err"}

StatusRowSets == UNION {[1..n -> StagedCols] : n \in 0..MaxRows}

NoStatus == <<"none">>

\* the loop of getDoltStatus over the rows, from row i on
RECURSIVE StatusLoop(_, _, _)
StatusLoop(rows, i, st) ==
    IF i > Len(rows) THEN st
    ELSE IF rows[i] = "err" THEN [st EXCEPT !.err = TRUE]
    ELSE IF rows[i] = "true"
         THEN StatusLoop(rows, i + 1, [st EXCEPT !.hasStagedChanges = TRUE])
         ELSE StatusLoop(rows, i + 1, [st EXCEPT !.hasUnstagedChanges = TRUE])

getDoltStatus_StagedOnly(rows, queryErr) ==
    IF queryErr
    THEN [hasStagedChanges |-> FALSE, hasUnstagedChanges |-> FALSE, err |-> TRUE]
    ELSE [hasStagedChanges |-> \E i \in DOMAIN rows : rows[i] = "true",
          hasUnstagedChanges |-> FALSE, err |-> FALSE]

\* getDoltStatus, given what "select * from dolt_status;" returned
getDoltStatus(rows, queryErr) ==
    LET st0 == [hasStagedChanges |-> FALSE, hasUnstagedChanges |-> FALSE, err |-> FALSE]
    IN  IF queryErr THEN [st0 EXCEPT !.err = TRUE]
        ELSE IF Len(rows) = 0 THEN st0
        ELSE StatusLoop(rows, 1, st0)

cpIdle ==
    /\ cpArg = ""
    /\ cpRows = NoStatus
    /\ cpIssued = <<>>
    /\ cpPc = "start"
    /\ cpRet = "none"

cpInit ==
    /\ cpArg \in CherryStrs
    /\ cpRows = NoStatus
    /\ cpIssued = <<>>
    /\ cpPc = "start"
    /\ cpRet = "none"

\* cherryPick up to the call of getDoltStatus
CherryPickAct ==
    /\ cpPc = "start"
    /\ IF Len(cpArg) = 0
       THEN cpPc' = "done" /\ cpRet' = "error: cannot cherry-pick empty string"
       ELSE cpPc' = "status" /\ cpRet' = cpRet
    /\ UNCHANGED <<cpArg, cpRows, cpIssued>>
    /\ UNCHANGED notCp

\* getDoltStatus and the tests of what it returned
StatusAct ==
    /\ cpPc = "status"
    /\ \E rows \in StatusRowSets, queryErr \in BOOLEAN :
          LET st == getDoltStatus(rows, queryErr)
          IN  /\ cpIssued' = Append(cpIssued, "select * from dolt_status;")
              /\ cpRows' = IF queryErr THEN <<"err">> ELSE rows
              /\ cpRet' = CASE st.err -> "error: failed to get dolt status"
                            [] st.hasStagedChanges -> "Please commit your staged changes"
                            [] st.hasUnstagedChanges -> "error: your local changes would be overwritten"
                            [] OTHER -> cpRet
              /\ cpPc' = IF st.err \/ st.hasStagedChanges \/ st.hasUnstagedChanges
                         THEN "done" ELSE "set"
    /\ UNCHANGED cpArg
    /\ UNCHANGED notCp

\* set @@dolt_allow_commit_conflicts = 1
SetAct ==
    /\ cpPc = "set"
    /\ cpIssued' = Append(cpIssued, "set @@dolt_allow_commit_conflicts = 1")
    /\ \E err \in BOOLEAN :
          IF err
          THEN cpPc' = "done" /\ cpRet' = "error: failed to set @@dolt_allow_commit_conflicts"
          ELSE cpPc' = "call" /\ cpRet' = cpRet
    /\ UNCHANGED <<cpArg, cpRows>>
    /\ UNCHANGED notCp

\* the query is interpolated and, unless that fails, sent
CallAct ==
    /\ cpPc = "call"
    /\ \E o \in {"interpolateErr", "callErr", "ok"} :
          /\ cpIssued' = IF o = "interpolateErr" THEN cpIssued
                         ELSE Append(cpIssued, "call dolt_cherry_pick(?)")
          /\ cpRet' = CASE o = "interpolateErr" -> "error: failed to interpolate query"
                        [] o = "callErr" -> "err"
                        [] OTHER -> "nil"
    /\ cpPc' = "done"
    /\ UNCHANGED <<cpArg, cpRows>>
    /\ UNCHANGED notCp

cpNext == CherryPickAct \/ StatusAct \/ SetAct \/ CallAct

(***************************************************************************)
(* dolt_rebase, as its script tests describe it: a rebase is started, its  *)
(* plan is the table dolt_rebase with one row per commit (rebase_order and *)
(* action), the plan is edited, and --continue checks and runs it.         *)
(***************************************************************************)
MaxPlan == 2

MaxOrder == 3

MaxRebases == 2

RebaseActions == {"pick", "drop", "squash", "fixup", "reword"}

RebaseOrders == 1..MaxOrder

\* what a statement on dolt_rebase answers when the table does not exist
NoPlan == "table not found: dolt_rebase"

\* the plan of a new rebase: the commits in order, each to be picked
NewPlan(n) == [i \in 1..n |-> [rebase_order |-> i, action |-> "pick"]]

\* the rows in ascending rebase_order
RECURSIVE OrderedRows(_)
OrderedRows(rows) ==
    IF rows = {} THEN <<>>
    ELSE LET first == CHOOSE r \in rows : \A q \in rows : r.rebase_order <= q.rebase_order
         IN  <<first>> \o OrderedRows(rows \ {first})

PlanRows(plan) == {plan[i] : i \in DOMAIN plan}

\* the steps of the plan one after the other: a squash or fixup needs a
\* pick or reword before it
RECURSIVE ValidateFrom(_, _, _)
ValidateFrom(steps, i, seenPick) ==
    IF i > Len(steps) THEN "nil"
    ELSE IF steps[i].action \in {"squash", "fixup"} /\ ~seenPick
         THEN "ErrInvalidRebasePlanSquashFixupWithoutPick"
    ELSE ValidateFrom(steps, i + 1, seenPick \/ steps[i].action \in {"pick", "reword"})

ValidateRebasePlan_AnyBefore(plan) ==
    IF plan # <<>> /\ plan[1].action \in {"squash", "fixup"}
    THEN "ErrInvalidRebasePlanSquashFixupWithoutPick" ELSE "nil"

ValidateRebasePlan(plan) == ValidateFrom(plan, 1, FALSE)

\* the rebase state after a rebase has run to its end or was aborted
Finish_KeepsStatus(st) == [st EXCEPT !.table = FALSE, !.plan = <<>>]

Finish(st) == [st EXCEPT !.active = FALSE, !.table = FALSE, !.plan = <<>>]

NoQuery == [query |-> "none"]

rbInit ==
    /\ rbState = [active |-> FALSE, table |-> FALSE, plan |-> <<>>]
    /\ rbOut = NoQuery
    /\ rbStarted = FALSE
    /\ rbCompleted = 0

\* call dolt_rebase('main')
RebaseStartAct ==
    /\ ~rbState.active
    /\ rbCompleted < MaxRebases
    /\ \E n \in 1..MaxPlan :
          rbState' = [active |-> TRUE, table |-> TRUE, plan |-> NewPlan(n)]
    /\ rbOut' = [query |-> "start", result |-> "0"]
    /\ rbStarted' = TRUE
    /\ UNCHANGED rbCompleted
    /\ UNCHANGED notRb

\* update dolt_rebase set action = a where rebase_order = k
RebaseUpdateActionAct ==
    /\ \E k \in RebaseOrders, a \in RebaseActions :
          IF ~rbState.table
          THEN /\ rbOut' = [query |-> "update", result |-> NoPlan]
               /\ UNCHANGED rbState
          ELSE /\ rbState' = [rbState EXCEPT !.plan =
                     [i \in DOMAIN rbState.plan |->
                         IF rbState.plan[i].rebase_order = k
                         THEN [rbState.plan[i] EXCEPT !.action = a]
                         ELSE rbState.plan[i]]]
               /\ rbOut' = [query |-> "update", result |-> "ok"]
    /\ UNCHANGED <<rbStarted, rbCompleted>>
    /\ UNCHANGED notRb

\* update dolt_rebase set rebase_order = j where rebase_order = k; the
\* rebase_order is the key of the table, and the rows are read in its order
RebaseUpdateOrderAct ==
    /\ rbState.table
    /\ \E k \in RebaseOrders, j \in RebaseOrders :
          /\ \E r \in PlanRows(rbState.plan) : r.rebase_order = k
          /\ \A r \in PlanRows(rbState.plan) : r.rebase_order # j
          /\ rbState' = [rbState EXCEPT !.plan = OrderedRows(
                 {IF r.rebase_order = k THEN [r EXCEPT !.rebase_order = j] ELSE r :
                     r \in PlanRows(rbState.plan)})]
    /\ rbOut' = [query |-> "update", result |-> "ok"]
    /\ UNCHANGED <<rbStarted, rbCompleted>>
    /\ UNCHANGED notRb

\* call dolt_rebase('--continue')
RebaseContinueAct ==
    /\ IF ~rbState.active
       THEN /\ rbOut' = [query |-> "continue", before |-> rbState, started |-> rbStarted,
                         result |-> "no rebase in progress"]
            /\ UNCHANGED <<rbState, rbStarted, rbCompleted>>
       ELSE IF ValidateRebasePlan(rbState.plan) # "nil"
       THEN /\ rbOut' = [query |-> "continue", before |-> rbState, started |-> rbStarted,
                         result |-> ValidateRebasePlan(rbState.plan)]
            /\ UNCHANGED <<rbState, rbStarted, rbCompleted>>
       ELSE /\ rbOut' = [query |-> "continue", before |-> rbState, started |-> rbStarted, result |-> "0"]
            /\ rbState' = Finish(rbState)
            /\ rbStarted' = FALSE
            /\ rbCompleted' = IF rbCompleted < MaxRebases THEN rbCompleted + 1
                               ELSE rbCompleted
    /\ UNCHANGED notRb

\* call dolt_rebase('--abort')
RebaseAbortAct ==
    /\ IF ~rbState.active
       THEN /\ rbOut' = [query |-> "abort", before |-> rbState, started |-> rbStarted,
                         result |-> "no rebase in progress"]
            /\ UNCHANGED <<rbState, rbStarted>>
       ELSE /\ rbOut' = [query |-> "abort", before |-> rbState, started |-> rbStarted, result |-> "0"]
            /\ rbState' = Finish(rbState)
            /\ rbStarted' = FALSE
    /\ UNCHANGED rbCompleted
    /\ UNCHANGED notRb

\* select * from dolt_rebase
RebaseSelectAct ==
    /\ rbOut' = [query |-> "select",
                 result |-> IF rbState.table THEN "rows" ELSE NoPlan,
                 rows |-> rbState.plan]
    /\ UNCHANGED <<rbState, rbStarted, rbCompleted>>
    /\ UNCHANGED notRb

rbNext ==
    \/ RebaseStartAct
    \/ RebaseUpdateActionAct
    \/ RebaseUpdateOrderAct
    \/ RebaseContinueAct
    \/ RebaseAbortAct
    \/ RebaseSelectAct

(***************************************************************************)
(* Ranges with cuts of every kind, for the membership tests alone, and the *)
(* binary searches of a node.                                              *)
(***************************************************************************)
\* a cut that binds nothing, a cut for NULL, and the cuts at a value
RangeCuts ==
    {RangeCut(Nil, FALSE, FALSE), RangeCut(Nil, FALSE, TRUE)}
        \cup {RangeCut(v, incl, FALSE) : v \in Vals, incl \in BOOLEAN}

CutRanges ==
    {[Start |-> a, Stop |-> b] : a \in [1..Len(Types) -> RangeCuts],
                                 b \in [1..Len(Types) -> RangeCuts]}

cutInit ==
    /\ ranges \in [1..1 -> CutRanges]
    /\ ndKeys = <<>>
    /\ out = NoOut

\* sort.Search(n, f): the binary search of the library, f over 0..n-1
RECURSIVE SortSearch(_, _, _)
SortSearch(i, j, f) ==
    IF i < j
    THEN LET h == (i + j) \div 2
         IN  IF ~f[h] THEN SortSearch(h + 1, j, f) ELSE SortSearch(i, h, f)
    ELSE i

binarySearchRangeStart(rng, keys) ==
    SortSearch(0, Len(keys), [i \in 0..(Len(keys) - 1) |-> AboveStart(rng, keys[i + 1])])

binarySearchRangeStop(rng, keys) ==
    SortSearch(0, Len(keys), [i \in 0..(Len(keys) - 1) |-> ~BelowStop(rng, keys[i + 1])])

bsInit ==
    /\ ranges \in [1..1 -> ConstructedRanges]
    /\ ndKeys \in NodeKeys
    /\ out = NoOut

\* the bounds of the scan of the node as the binary searches find them
BinarySearchAct ==
    /\ Len(ranges) = 1
    /\ out' = [NoOut EXCEPT !.op = "bsearch",
                            !.start = binarySearchRangeStart(ranges[1], ndKeys),
                            !.stop = binarySearchRangeStop(ranges[1], ndKeys)]
    /\ UNCHANGED <<ranges, ndKeys, notRg>>

(***************************************************************************)
(* noms blob put: the file is cut into one reader per chunk, and the blob  *)
(* is what the readers read, one after the other.                          *)
(***************************************************************************)
MaxChunks == 3

MaxConcurrency == 3

\* 1 << 20, the least chunk size
MinChunkSize == 1048576

\* file sizes around every multiple of the least chunk size
FileSizes ==
    {k * MinChunkSize + d : k \in 0..MaxChunks, d \in {0, 1, MinChunkSize - 1}}

Concurrencies == 1..MaxConcurrency

NoPut == [fileSize |-> 0, concurrency |-> 1, chunkSize |-> 0, count |-> 0]

\* chunkSize := fileSize / concurrency, and 1 << 20 if that is less
chunkSize(fileSize, concurrency) ==
    IF fileSize \div concurrency < MinChunkSize THEN MinChunkSize
    ELSE fileSize \div concurrency

\* len(readers): make([]io.Reader, fileSize/chunkSize)
NumReaders(fileSize, size) == fileSize \div size

\* the reader of slice i (from 0): it seeks to i*chunkSize and is limited
\* to chunkSize bytes, the last one to the final bytes as well
LimitReader(i, bp) ==
    [offset |-> i * bp.chunkSize,
     limit  |-> IF i = bp.count - 1
                THEN bp.chunkSize + (bp.fileSize % bp.chunkSize)
                ELSE bp.chunkSize]

bpIdle ==
    /\ bpPut = NoPut
    /\ bpPc = "idle"
    /\ bpReaders = <<>>

bpInit ==
    /\ bpPut \in {[fileSize |-> f, concurrency |-> n, chunkSize |-> 0, count |-> 0] :
                    f \in FileSizes, n \in Concurrencies}
    /\ bpPc = "stat"
    /\ bpReaders = <<>>

\* info.Size(), chunkSize and make(readers)
SizeAct ==
    /\ bpPc = "stat"
    /\ LET size == chunkSize(bpPut.fileSize, bpPut.concurrency)
       IN  bpPut' = [bpPut EXCEPT !.chunkSize = size,
                                  !.count = NumReaders(bpPut.fileSize, size)]
    /\ bpPc' = "readers"
    /\ UNCHANGED <<bpReaders>>
    /\ UNCHANGED notBp

\* one turn of the loop over the readers
ReaderAct ==
    /\ bpPc = "readers"
    /\ Len(bpReaders) < bpPut.count
    /\ bpReaders' = Append(bpReaders, LimitReader(Len(bpReaders), bpPut))
    /\ UNCHANGED <<bpPut, bpPc>>
    /\ UNCHANGED notBp

\* types.NewBlob(ctx, db, readers...) and the commit
NewBlobAct ==
    /\ bpPc = "readers"
    /\ Len(bpReaders) = bpPut.count
    /\ bpPc' = "blob"
    /\ UNCHANGED <<bpPut, bpReaders>>
    /\ UNCHANGED notBp

bpNext ==
    \/ SizeAct
    \/ ReaderAct
    \/ NewBlobAct

(***************************************************************************)
(* doltIndex.trimRangeCutValue: a key part of a column with a prefix       *)
(* length is cut to that many bytes.  A string or byte slice is its type   *)
(* and its length: what is kept of it is a prefix, which its length names. *)
(***************************************************************************)
MaxPrefix == 3

MaxKeyLen == 3

\* the values of a uint16
Uint16 == 65536

\* uint16(n) of a length
ToUint16(n) == n % Uint16

KeyKinds == {"string", "[]uint8", "int64"}

\* key lengths on both sides of the uint16 range
KeyLens ==
    (0..MaxKeyLen) \cup {Uint16 - 1} \cup {Uint16 + d : d \in 0..MaxKeyLen}

KeyParts == [kind : KeyKinds, len : KeyLens]

PrefixLengthSets ==
    {<<>>} \cup [1..1 -> 0..MaxPrefix] \cup [1..2 -> 0..MaxPrefix]

NoTrim == [to |-> 0, prefixLengths |-> <<>>, keyPart |-> [kind |-> "int64", len |-> 0]]

\* di.prefixLengths[to] if the index has one for the column, else 0
prefixLength(lengths, to) ==
    IF Len(lengths) > to THEN lengths[to + 1] ELSE 0

\* kp[:prefixLength], after prefixLength is brought down to uint16(len(kp))
trimRangeCutValue(lengths, to, keyPart) ==
    LET p == prefixLength(lengths, to)
    IN  IF p # 0 /\ keyPart.kind \in {"string", "[]uint8"}
        THEN [keyPart EXCEPT !.len = IF p > ToUint16(keyPart.len)
                                     THEN ToUint16(keyPart.len)
                                     ELSE p]
        ELSE keyPart

trIdle ==
    /\ trimIn = NoTrim
    /\ trimOut = [done |-> FALSE, keyPart |-> NoTrim.keyPart]

trInit ==
    /\ trimIn \in [to : 0..1, prefixLengths : PrefixLengthSets, keyPart : KeyParts]
    /\ trimOut = [done |-> FALSE, keyPart |-> NoTrim.keyPart]

TrimAct ==
    /\ ~trimOut.done
    /\ trimOut' = [done |-> TRUE,
                   keyPart |-> trimRangeCutValue(trimIn.prefixLengths, trimIn.to,
                                                 trimIn.keyPart)]
    /\ UNCHANGED <<trimIn>>
    /\ UNCHANGED notTr

trNext == TrimAct

\* each specification runs one part of the program, the other parts at rest
InitAddressMap == amInit /\ rgIdle /\ rtInit /\ ccInit /\ dsIdle /\ rcInit /\ snIdle /\ spIdle /\ arInit /\ bdIdle /\ cpIdle /\ rbInit /\ bpIdle /\ trIdle

InitRange == rgInit /\ amInit /\ rtInit /\ ccInit /\ dsIdle /\ rcInit /\ snIdle /\ spIdle /\ arInit /\ bdIdle /\ cpIdle /\ rbInit /\ bpIdle /\ trIdle

InitRoot == rtInit /\ amInit /\ rgIdle /\ ccInit /\ dsIdle /\ rcInit /\ snIdle /\ spIdle /\ arInit /\ bdIdle /\ cpIdle /\ rbInit /\ bpIdle /\ trIdle

InitChunkCache == ccInit /\ amInit /\ rgIdle /\ rtInit /\ dsIdle /\ rcInit /\ snIdle /\ spIdle /\ arInit /\ bdIdle /\ cpIdle /\ rbInit /\ bpIdle /\ trIdle

InitDurableState == dsInit /\ amInit /\ rgIdle /\ rtInit /\ ccInit /\ rcInit /\ snIdle /\ spIdle /\ arInit /\ bdIdle /\ cpIdle /\ rbInit /\ bpIdle /\ trIdle

InitRowConverter == rcInit /\ amInit /\ rgIdle /\ rtInit /\ ccInit /\ dsIdle /\ snIdle /\ spIdle /\ arInit /\ bdIdle /\ cpIdle /\ rbInit /\ bpIdle /\ trIdle

InitSplitNulls == snInit /\ amInit /\ rgIdle /\ rtInit /\ ccInit /\ dsIdle /\ rcInit /\ spIdle /\ arInit /\ bdIdle /\ cpIdle /\ rbInit /\ bpIdle /\ trIdle

InitSpatial == spInit /\ amInit /\ rgIdle /\ rtInit /\ ccInit /\ dsIdle /\ rcInit /\ snIdle /\ arInit /\ bdIdle /\ cpIdle /\ rbInit /\ bpIdle /\ trIdle

InitArchive == arInit /\ amInit /\ rgIdle /\ rtInit /\ ccInit /\ dsIdle /\ rcInit /\ snIdle /\ spIdle /\ bdIdle /\ cpIdle /\ rbInit /\ bpIdle /\ trIdle

InitBuilder == bdInit /\ amInit /\ rgIdle /\ rtInit /\ ccInit /\ dsIdle /\ rcInit /\ snIdle /\ spIdle /\ arInit /\ cpIdle /\ rbInit /\ bpIdle /\ trIdle

InitCherryPick == cpInit /\ amInit /\ rgIdle /\ rtInit /\ ccInit /\ dsIdle /\ rcInit /\ snIdle /\ spIdle /\ arInit /\ bdIdle /\ rbInit /\ bpIdle /\ trIdle

InitRebase == rbInit /\ amInit /\ rgIdle /\ rtInit /\ ccInit /\ dsIdle /\ rcInit /\ snIdle /\ spIdle /\ arInit /\ bdIdle /\ cpIdle /\ bpIdle /\ trIdle

InitCuts == cutInit /\ amInit /\ rtInit /\ ccInit /\ dsIdle /\ rcInit /\ snIdle /\ spIdle /\ arInit /\ bdIdle /\ cpIdle /\ rbInit /\ bpIdle /\ trIdle

InitBinarySearch == bsInit /\ amInit /\ rtInit /\ ccInit /\ dsIdle /\ rcInit /\ snIdle /\ spIdle /\ arInit /\ bdIdle /\ cpIdle /\ rbInit /\ bpIdle /\ trIdle

InitBlobPut == bpInit /\ amInit /\ rgIdle /\ rtInit /\ ccInit /\ dsIdle /\ rcInit /\ snIdle /\ spIdle /\ arInit /\ bdIdle /\ cpIdle /\ rbInit /\ trIdle

InitTrim == trInit /\ amInit /\ rgIdle /\ rtInit /\ ccInit /\ dsIdle /\ rcInit /\ snIdle /\ spIdle /\ arInit /\ bdIdle /\ cpIdle /\ rbInit /\ bpIdle

SpecAddressMap == InitAddressMap /\ [][amNext]_vars

SpecRange == InitRange /\ [][rgNext]_vars

SpecRoot == InitRoot /\ [][rtNext]_vars

SpecChunkCache == InitChunkCache /\ [][ccNext]_vars

SpecDurableState == InitDurableState /\ [][dsNext]_vars

SpecRowConverter == InitRowConverter /\ [][rcNext]_vars

SpecSplitNulls == InitSplitNulls /\ [][snNext]_vars

SpecSpatial == InitSpatial /\ [][spNext]_vars

SpecArchive == InitArchive /\ [][arNext]_vars

SpecBuilder == InitBuilder /\ [][bdNext]_vars

SpecCherryPick == InitCherryPick /\ [][cpNext]_vars

SpecRebase == InitRebase /\ [][rbNext]_vars

SpecCuts == InitCuts /\ [][MemberAct]_vars

SpecBinarySearch == InitBinarySearch /\ [][BinarySearchAct]_vars

SpecBlobPut == InitBlobPut /\ [][bpNext]_vars

SpecTrim == InitTrim /\ [][trNext]_vars

(***************************************************************************)
(* Claims about the AddressMap.                                            *)
(***************************************************************************)
FlushedOk == res.done /\ ~res.err

\* C1: after Add(k, v) or Update(k, v) and Flush, Get(k) returns v, whatever
\* edits came before and whether or not k was in the base map: the last
\* written value wins.
C1_PutThenGet ==
    FlushedOk =>
        \A k \in Names :
            lastEdit[k].op = "put" => /\ Get(res.map, k) = lastEdit[k].v
                                      /\ Has(res.map, k)

\* a flush that overwrote, with another address, a name of the base map
C1_Witness ==
    /\ FlushedOk
    /\ \E k \in Names :
        /\ lastEdit[k].op = "put"
        /\ Has(wr.tree, k)
        /\ Get(wr.tree, k) # lastEdit[k].v
        /\ Get(res.map, k) = lastEdit[k].v

\* the flush of the same base with the batch that leaves out the no-op deletes
WithoutNoopDeletes == Flush([tree |-> wr.tree, edits |-> shadow.edits], FALSE).map

\* C2: after Delete(k) and Flush, Has(k) is false; a delete of an absent
\* name and a second delete of a name change nothing: the flushed map has
\* the entries, the Count and the root hash of the flush without them.
C2_DeleteThenHas ==
    FlushedOk =>
        /\ \A k \in Names : lastEdit[k].op = "del" => ~Has(res.map, k)
        /\ HashOf(res.map) = HashOf(WithoutNoopDeletes)
        /\ Count(res.map) = Count(WithoutNoopDeletes)
        /\ IterAll(res.map, 0).calls = IterAll(WithoutNoopDeletes, 0).calls

\* a flush of a batch with a no-op delete of an absent name, and with a
\* delete that removed a name of the base map
C2_Witness ==
    /\ FlushedOk
    /\ shadow.skipped
    /\ shadow.edits # wr.edits
    /\ \E k \in Names : lastEdit[k].op = "del" /\ Has(wr.tree, k)

RECURSIVE AddAll(_, _)
AddAll(w, S) ==
    IF S = {} THEN w
    ELSE LET p == CHOOSE q \in S : TRUE
         IN  AddAll(Add(w, p[1], p[2]), S \ {p})

\* the map built from the empty map by one batch of Adds and one Flush
OneBatch(S) == Flush(AddAll(Editor(NewEmptyAddressMap), S), FALSE).map

\* C3: history independence: every way of adding the pairs of a set S with
\* distinct names to the empty map, in any order and over any number of
\* editor batches, ends with the root hash of the one-batch build of S.
C3_HistoryIndependent ==
    (FlushedOk /\ hist.pure) => HashOf(res.map) = HashOf(OneBatch(hist.pend))

\* three names added over more than one batch, the result having two levels
C3_Witness ==
    /\ FlushedOk
    /\ hist.pure
    /\ Cardinality(hist.pend) = 3
    /\ hist.base # {}
    /\ hist.base # hist.pend
    /\ res.map.level > 0

\* C4: IterAll calls back exactly Count() times, in strictly ascending
\* lexicographic byte order of the names, and stops at the first callback
\* error.
C4_IterAllOrdered ==
    iter.done =>
        LET n == Len(iter.calls)
        IN  /\ iter.failAt \in 1..Count(c) => (n = iter.failAt /\ iter.err)
            /\ iter.failAt \notin 1..Count(c) => (n = Count(c) /\ ~iter.err)
            /\ \A i \in 1..(n - 1) :
                   BytesCompare(iter.calls[i][1], iter.calls[i + 1][1]) < 0

\* a full iteration over a map of three names held in more than one leaf
C4_Witness ==
    /\ iter.done
    /\ ~iter.err
    /\ Len(iter.calls) = 3
    /\ c.level > 0

\* C5: Flush leaves the tree the editor was created from as it was (root
\* hash, Count and entries), whether it succeeds or fails; when it fails it
\* returns the zero AddressMap.
C5_FlushKeepsBase ==
    [][(~res.done /\ res'.done) =>
          /\ c' = c
          /\ wr.tree = c
          /\ HashOf(wr'.tree) = HashOf(c)
          /\ Count(wr'.tree) = Count(c)
          /\ IterAll(wr'.tree, 0).calls = IterAll(c, 0).calls
          /\ res'.err => res'.map = NilNode]_vars

\* a failed flush of a batch that would have changed the tree
C5_Witness ==
    /\ res.done
    /\ res.err
    /\ res.map = NilNode
    /\ ApplyMutations(wr.tree, wr.edits) # wr.tree
    /\ Count(wr.tree) > 0

(***************************************************************************)
(* Claims about the range engine.                                          *)
(***************************************************************************)
Admits(r, t) == AboveStart(r, t) /\ BelowStop(r, t)

\* the tuple of the values of a bound made by inclusiveBound or exclusiveBound
BoundTuple(cuts) == [i \in 1..Len(Types) |-> cuts[i].Value]

\* t against the bounds of r in the lexicographic order of the descriptor
LexAbove(r, t) ==
    \/ r.Start = <<>>
    \/ TupleCompare(t, BoundTuple(r.Start)) > 0
    \/ TupleCompare(t, BoundTuple(r.Start)) = 0 /\ r.Start[Len(Types)].Inclusive

LexBelow(r, t) ==
    \/ r.Stop = <<>>
    \/ TupleCompare(t, BoundTuple(r.Stop)) < 0
    \/ TupleCompare(t, BoundTuple(r.Stop)) = 0 /\ r.Stop[Len(Types)].Inclusive

\* C6: AboveStart(t) and BelowStop(t) together agree with comparing t
\* lexicographically against the Start and Stop bounds (the first column
\* that discriminates decides); so ClosedRange((1,2),(2,1)) admits, of
\* (1,1), (1,2), (2,1), (2,2) and (3,1), exactly (1,2) and (2,1).
C6_LexMembership ==
    out.op = "member" =>
        /\ (out.above /\ out.below)
               <=> (LexAbove(ranges[1], out.t) /\ LexBelow(ranges[1], out.t))
        /\ (/\ ranges[1] = ClosedRange(<<1, 2>>, <<2, 1>>)
            /\ out.t \in {<<1, 1>>, <<1, 2>>, <<2, 1>>, <<2, 2>>, <<3, 1>>})
               => ((out.above /\ out.below) <=> out.t \in {<<1, 2>>, <<2, 1>>})

\* C7: the keys of a node at the indexes from linearSearchRangeStart up to
\* but excluding linearSearchRangeStop are exactly the keys of the node that
\* satisfy AboveStart and BelowStop.
C7_ScanIsMembers ==
    out.op = "search" =>
        {ndKeys[i] : i \in (out.start + 1)..out.stop}
            = {ndKeys[i] : i \in {j \in 1..Len(ndKeys) : Admits(ranges[1], ndKeys[j])}}

\* C8: MergeOverlappingRanges(R) admits exactly the tuples that some range
\* of R admits, no tuple is admitted by two ranges of the result, and a
\* list of at most one range is returned as it is.
C8_MergeCoversSame ==
    out.op = "merge" =>
        /\ ~out.panic
        /\ \A t \in Tuples :
               (\E i \in 1..Len(out.list) : Admits(out.list[i], t))
                   <=> (\E i \in 1..Len(ranges) : Admits(ranges[i], t))
        /\ \A t \in Tuples : \A i, j \in 1..Len(out.list) :
               i < j => ~(Admits(out.list[i], t) /\ Admits(out.list[j], t))
        /\ Len(ranges) <= 1 => out.list = ranges

IsPermutation(a, b) ==
    /\ Len(a) = Len(b)
    /\ \E f \in Permutations(1..Len(a)) : \A i \in 1..Len(a) : b[i] = a[f[i]]

\* C9: SortRanges returns a permutation of its input in which no range is
\* less than a range before it, Range.less being a strict ordering: never
\* a.less(b) and b.less(a), never a.less(a).
C9_SortedByStart ==
    out.op = "sort" =>
        /\ ~out.panic
        /\ IsPermutation(ranges, out.list)
        /\ \A i, j \in 1..Len(out.list) :
               i < j => ~RangeLess(out.list[j], out.list[i])
        /\ \A i, j \in 1..Len(ranges) :
               ~(RangeLess(ranges[i], ranges[j]) /\ RangeLess(ranges[j], ranges[i]))


(***************************************************************************)
(* Claims about the root compare-and-swap.                                 *)
(***************************************************************************)
\* the invocations that are back from a Commit that met no I/O error
Committed(pr) == pr.pc = "done" /\ pr.committed /\ ~pr.err

\* Commit replaced the root iff the root it met was the expected one
CasOutcome(pr) ==
    /\ pr.ok <=> pr.atCommit = pr.currRoot
    /\ pr.after = IF pr.ok THEN pr.h ELSE pr.atCommit

\* exactly one other Commit ran while pr was pending, with pr's expected root
OneRival(pr) ==
    /\ pr.nRivals = 1
    /\ pr.rival.expected = pr.currRoot
    /\ ~pr.rival.err

ReportsFailure(pr) ==
    /\ pr.ret = 1
    /\ pr.msg = "Optimistic concurrency failure"
    /\ pr.after = pr.atCommit

ChunkMapOf(S) ==
    [h \in {ChunkHash(chk) : chk \in S} |-> CHOOSE chk \in S : ChunkHash(chk) = h]

\* C11: after any sequence of Put, PutChunk and GetAndClearChunksToFlush,
\* for every hash set H, Has(H) is exactly the hashes of H that Get(H) does
\* not return, and Get(H) returns every chunk of H that was ever inserted
\* (so flushing the pending set removes no chunk from the cache).
C11_HasComplementsGet ==
    \A H \in SUBSET ChunkHashes :
        /\ MccHas(mcc, H) = H \ DOMAIN MccGet(mcc, H)
        /\ MccGet(mcc, H) = ChunkMapOf({chk \in ever : ChunkHash(chk) \in H})

\* a cache that was flushed while it held some chunks and missed others
C11_Witness ==
    /\ mccOut.op = "GetAndClearChunksToFlush"
    /\ mccOut.map # EmptyChunkMap
    /\ MccHas(mcc, ChunkHashes) # {}
    /\ MccHas(mcc, ChunkHashes) # ChunkHashes

\* C12: GetAndClearChunksToFlush returns exactly the chunks newly inserted
\* since the previous GetAndClearChunksToFlush (or since creation) and clears
\* the pending set: a call right after it returns the empty map.
C12_FlushReturnsNew ==
    mccOut.op = "GetAndClearChunksToFlush" =>
        /\ mccOut.map = ChunkMapOf(mccOut.chks)
        /\ GetAndClearChunksToFlush(mcc).ret = EmptyChunkMap

\* a second flush that returned chunks, but not the chunks of the first one
C12_Witness ==
    /\ mccOut.op = "GetAndClearChunksToFlush"
    /\ mccOut.chks # {}
    /\ ever \ mccOut.chks # {}

\* C13: PutChunk(c) returns true iff c's hash was not in the cache before the
\* call, and a chunk already in the cache is never added to toFlush again by
\* Put or PutChunk, also after its pending set was cleared.
C13_NoReAdd ==
    [][/\ mccOut'.op = "PutChunk" =>
              \A chk \in mccOut'.chks : mccOut'.ret = (chk \notin ever)
       /\ mccOut'.op \in {"Put", "PutChunk"} =>
              \A chk \in ever :
                  ChunkHash(chk) \notin DOMAIN mcc.toFlush =>
                      ChunkHash(chk) \notin DOMAIN mcc'.toFlush]_vars

\* PutChunk of a chunk that was inserted and flushed before: false, and the
\* chunk is not pending
C13_Witness ==
    /\ mccOut.op = "PutChunk"
    /\ ~mccOut.ret
    /\ \E chk \in mccOut.chks :
           /\ ChunkHash(chk) \in DOMAIN mcc.hashToChunk
           /\ ChunkHash(chk) \notin DOMAIN mcc.toFlush

(***************************************************************************)
(* Claims about the durable index state cache.                             *)
(***************************************************************************)
\* the calls of getDurableState that returned a state
Returned(cl) == cl.pc = "done" /\ ~cl.err

\* C14: for any interleaving of getDurableState calls while the data cache
\* key changes, every successful call returns a state whose key is the key
\* DataCacheKey returned in that call; a cached state is returned only when
\* cancache is true and its key is that key; otherwise the state is rebuilt
\* from the table and, when cancache, it replaced the cached state.
C14_KeyOfTheCall ==
    \A t \in Callers :
        LET cl == callers[t]
        IN  Returned(cl) =>
                /\ ~cl.ret.nil
                /\ cl.ret.key = cl.newkey
                /\ cl.fromCache => cl.cancache /\ cl.ret = cl.held /\ cl.held.key = cl.newkey
                /\ ~cl.fromCache =>
                       /\ \E v \in Versions : cl.ret = NewState(diId, cl.newkey, v)
                       /\ cl.stored
                       /\ cl.after = IF cl.cancache THEN cl.ret ELSE cl.held

\* a call that found the cached state stale (the key had changed), rebuilt it
\* and replaced it, and a call that was served the cached state
C14_Witness ==
    \E t, u \in Callers :
        /\ Returned(callers[t])
        /\ callers[t].fromCache
        /\ callers[t].newkey > 1
        /\ Returned(callers[u])
        /\ ~callers[u].fromCache
        /\ callers[u].cancache
        /\ ~callers[u].held.nil
        /\ callers[u].held.key < callers[u].newkey
        /\ diCache = callers[u].ret

(***************************************************************************)
(* Claims about the cached row converter.                                  *)
(***************************************************************************)
\* C15: for any interleaving of concurrent sqlRowConverter calls with
\* possibly different projections, each call returns a converter built for
\* the projection it was called with.
C15_ConverterOfTheCall ==
    \A t \in Sessions :
        LET cl == convCalls[t]
        IN  cl.pc = "done" =>
                /\ ~cl.panic
                /\ cl.cachedConverter = NewKVToSqlRowConverterForCols(cl.proj)

(***************************************************************************)
(* Claims about SplitNullsFromRange.                                       *)
(***************************************************************************)
\* what a column expression is replaced by: its non-empty intersections with
\* "is NULL" and "is not NULL" when its lower bound is BelowNull, itself otherwise
ColumnChoices(rce) ==
    IF rce.LowerBound # BelowNull THEN {rce}
    ELSE {x.expr : x \in {y \in {TryIntersect(rce, NullRangeColumnExpr),
                                 TryIntersect(rce, NotNullRangeColumnExpr)} : y.ok}}

\* C16: SplitNullsFromRange(r) replaces each column expression whose lower
\* bound is BelowNull by its non-empty intersections with "is NULL" and "is
\* not NULL" and copies the other columns: with k columns for which both
\* intersections are non-empty the result has 2^k ranges, one for each
\* distinct NULL/non-NULL choice, each in the input's column order.
C16_SplitNulls ==
    snOut.done =>
        LET k == Cardinality({i \in 1..Len(sqlRange) :
                                 Cardinality(ColumnChoices(sqlRange[i])) = 2})
            expected == {rg \in [1..Len(sqlRange) -> ColumnExprs \cup {NotNullRangeColumnExpr}
                                     \cup {RangeColumnExpr(AboveNull, Above(v)) : v \in 1..MaxBound}] :
                            \A i \in 1..Len(sqlRange) : rg[i] \in ColumnChoices(sqlRange[i])}
        IN  /\ Len(snOut.res) = 2 ^ k
            /\ {snOut.res[j] : j \in 1..Len(snOut.res)} = expected

(***************************************************************************)
(* Claims about prollySpatialRanges.                                       *)
(***************************************************************************)
\* the Z-ranges of the bounding box, and the range of the i-th of them at a level
BoxZRanges == SplitZRanges(<<ZValue(bbox[1]), ZValue(bbox[2])>>, bbox[1], bbox[2])

RangeAt(level, i) ==
    CellRange(ZMask(level, BoxZRanges[i][1]), ZMask(level, BoxZRanges[i][2]))

\* the ranges of the pairs (level, Z-range) that keep holds of, level by level
RECURSIVE Kept(_, _, _)
Kept(keep(_, _), level, i) ==
    IF level > CoordBits THEN <<>>
    ELSE IF i > Len(BoxZRanges) THEN Kept(keep, level + 1, 1)
    ELSE (IF keep(level, i) THEN <<RangeAt(level, i)>> ELSE <<>>) \o Kept(keep, level, i + 1)

NoTwoAlike(rs) == \A i, j \in 1..Len(rs) : i # j => rs[i] # rs[j]

\* a Z-range's cell bounds differ from those of the same Z-range one level below
NewAtLevel(level, i) == level = 0 \/ RangeAt(level, i) # RangeAt(level - 1, i)

\* a Z-range's cell bounds differ from those of the Z-range before it at the level
NewInLevel(level, i) == i = 1 \/ RangeAt(level, i) # RangeAt(level, i - 1)

SpatialDone == spOut.done /\ ~spOut.err

\* C17 as stated: for each Z-range of SplitZRanges([zMin, zMax]) and each
\* level, one binding inclusive [minCell, maxCell] range is emitted, with
\* consecutive levels that produce identical cell bounds coalesced into one
\* range, and no two emitted ranges have identical Lo and Hi.
C17_CoalescedAcrossLevels ==
    SpatialDone =>
        /\ spOut.pRanges = Kept(NewAtLevel, 0, 1)
        /\ NoTwoAlike(spOut.pRanges)

\* C17 amended: for each level and each Z-range of SplitZRanges([zMin, zMax])
\* one binding inclusive [minCell, maxCell] range is emitted, with
\* consecutive Z-ranges of a level that produce identical cell bounds
\* coalesced into one range, and no two emitted ranges have identical Lo and
\* Hi.
C17_CoalescedWithinLevel ==
    SpatialDone =>
        /\ spOut.pRanges = Kept(NewInLevel, 0, 1)
        /\ NoTwoAlike(spOut.pRanges)

\* a box of several Z-ranges that fall into one cell at some level and into
\* different cells at another
C17_Witness ==
    /\ SpatialDone
    /\ Len(BoxZRanges) >= 2
    /\ \E level \in Levels : \E i \in 2..Len(BoxZRanges) : ~NewInLevel(level, i)
    /\ \E level \in Levels : \E i \in 2..Len(BoxZRanges) : NewInLevel(level, i)

\* the addresses that appeared in an Add
Appeared == UNION added

\* the addresses a chain of Add calls leads to from the addresses of S
RECURSIVE ChainedTo(_)
ChainedTo(S) ==
    LET T == S \cup UNION {e \in added : e \cap S # {}}
    IN  IF T = S THEN S ELSE ChainedTo(T)

\* C18: after any sequence of Add(a, b) calls the groups of ChunkRelations
\* are a partition of the addresses that appeared in an Add, two addresses
\* are in the same group iff a chain of Add calls connects them, and
\* Count() is the number of distinct addresses that appeared in an Add.
C18_GroupsAreChains ==
    /\ UNION Groups(groupings) = Appeared
    /\ \A G1, G2 \in Groups(groupings) : G1 = G2 \/ G1 \cap G2 = {}
    /\ \A a, b \in Appeared :
          (Group(groupings, a) = Group(groupings, b)) <=> (b \in ChainedTo({a}))
    /\ ChunkRelationsCount(groupings) = Cardinality(Appeared)
    /\ arPc = "done" => arOut = Cardinality(Appeared)

\* Add(1, 2), Add(2, 3), Add(4, 5): two groups of sizes 3 and 2 and a count
\* of 5, printed at the end of the history
C18_Witness ==
    /\ added = {{1, 2}, {2, 3}, {4, 5}}
    /\ Groups(groupings) = {{1, 2, 3}, {4, 5}}
    /\ arPc = "done"
    /\ arOut = 5

\* what the statement asks of a delta: unchanged schema, unchanged primary
\* key set, changed row data
Unchanged3(d) == d.schChg = "no" /\ ~d.pkChg /\ d.changed = "yes"

\* C19 (as stated): the walk is run for every table delta with unchanged
\* schema, unchanged primary key set and changed row data, and for no other.
C19_WalkedIffChanged ==
    delta # NoDelta => (walked <=> Unchanged3(delta))

\* C19 (amended): the walk is run for every table delta with unchanged
\* schema, unchanged primary key set, changed row data and two row data maps
\* whose root nodes have the same level, and for no other delta; and only
\* during a walk is an address added to ChunkRelations.
C19_WalkedIffChangedSameLevel ==
    /\ delta # NoDelta =>
          (walked <=> (Unchanged3(delta) /\ delta.fromLevel = delta.toLevel))
    /\ arPc = "walk" => walked

\* a delta with unchanged schema and key set and changed data was walked and
\* its pairs added, and after it one with root nodes of different levels was
\* passed over
C19_Witness ==
    /\ added # {}
    /\ delta # NoDelta
    /\ Unchanged3(delta)
    /\ delta.fromLevel # delta.toLevel
    /\ ~walked

\* the bytes of the keys and values given to AddItems
RECURSIVE GivenSize(_)
GivenSize(items) ==
    IF items = <<>> THEN 0
    ELSE KeyLen(Head(items).key) + AddrLen + GivenSize(Tail(items))

RECURSIVE GivenSubtrees(_)
GivenSubtrees(items) ==
    IF items = <<>> THEN 0 ELSE Head(items).subtree + GivenSubtrees(Tail(items))

\* C20: across any sequence of StartNode, AddItems and Build, Count() is the
\* number of AddItems calls since the last StartNode or Build; Build emits a
\* node whose treeCount is the number of keys at level 0 and the sum of the
\* added subtree counts above, and leaves the builder empty (Count() = 0,
\* size = 0); HasCapacity(k, v) is true iff the accumulated size plus
\* len(k) + len(v) does not exceed MaxVectorOffset.
C20_NodeBuilderContract ==
    /\ BuilderCount(builder) = Len(given)
    /\ bldOut.op = "Count" => bldOut.n = Len(given)
    /\ bldOut.op = "Build" =>
          /\ bldOut.node.treeCount =
                IF builder.level = 0 THEN Len(bldOut.of) ELSE GivenSubtrees(bldOut.of)
          /\ Len(bldOut.node.keys) = Len(bldOut.of)
          /\ BuilderCount(builder) = 0
          /\ builder.size = 0
    /\ bldOut.op = "HasCapacity" =>
          (bldOut.ok <=>
              GivenSize(given) + KeyLen(bldOut.key) + AddrLen <= MaxVectorOffset)

\* a node built above the leaves out of two items with four entries below
\* them, the builder empty after it
C20_Witness ==
    /\ bldOut.op = "Build"
    /\ builder.level = 1
    /\ Len(bldOut.of) = 2
    /\ bldOut.node.treeCount = 4
    /\ BuilderCount(builder) = 0

InSeq(x, s) == \E i \in DOMAIN s : s[i] = x

\* C21: cherryPick sends "call dolt_cherry_pick(?)" only after dolt_status
\* returned no rows and after it has set @@dolt_allow_commit_conflicts; with
\* a row in dolt_status, staged or not, or with an empty commit argument it
\* returns an error and sends neither the set statement nor the call.
C21_CleanTreeOnly ==
    /\ InSeq("call dolt_cherry_pick(?)", cpIssued) =>
          /\ cpRows = <<>>
          /\ cpIssued = <<"select * from dolt_status;",
                          "set @@dolt_allow_commit_conflicts = 1",
                          "call dolt_cherry_pick(?)">>
    /\ (cpPc = "done" /\ (cpArg = "" \/ (cpRows # NoStatus /\ cpRows # <<>>))) =>
          /\ cpRet \notin {"nil", "none"}
          /\ ~InSeq("set @@dolt_allow_commit_conflicts = 1", cpIssued)
          /\ ~InSeq("call dolt_cherry_pick(?)", cpIssued)

\* a clean working tree: both statements were sent after the status, and
\* cherryPick returned nil
C21_Witness ==
    /\ cpPc = "done"
    /\ cpRows = <<>>
    /\ cpRet = "nil"
    /\ InSeq("call dolt_cherry_pick(?)", cpIssued)

\* C22: whenever no rebase is in progress (initially, and again after a
\* rebase was completed by --continue), dolt_rebase('--abort') and
\* dolt_rebase('--continue') fail with "no rebase in progress"; after a
\* rebase completes the table dolt_rebase no longer exists.
C22_NoRebaseInProgress ==
    /\ (rbOut.query \in {"abort", "continue"} /\ ~rbOut.started) =>
          rbOut.result = "no rebase in progress"
    /\ (rbOut.query \in {"abort", "continue"} /\ rbOut.result = "0") =>
          /\ rbOut.before.active
          /\ ~rbState.table
    /\ ~rbStarted => ~rbState.table
    /\ (rbOut.query = "select" /\ ~rbStarted) => rbOut.result = NoPlan

\* a rebase was completed, and --abort after it failed
C22_Witness ==
    /\ rbCompleted = 1
    /\ ~rbStarted
    /\ rbOut.query = "abort"
    /\ rbOut.result = "no rebase in progress"

\* a squash or fixup row with no pick or reword row of a lower rebase_order
SquashWithoutPick(plan) ==
    \E i \in DOMAIN plan :
        /\ plan[i].action \in {"squash", "fixup"}
        /\ \A j \in DOMAIN plan :
              plan[j].rebase_order < plan[i].rebase_order =>
                  plan[j].action \notin {"pick", "reword"}

\* C23: --continue on a plan in which a squash or fixup is not preceded in
\* rebase_order by a pick-like action, also when every row before it is a
\* drop, fails with ErrInvalidRebasePlanSquashFixupWithoutPick and the
\* rebase stays in progress with its table dolt_rebase as it was.
C23_SquashNeedsPick ==
    (rbOut.query = "continue" /\ rbOut.before.active) =>
        IF SquashWithoutPick(rbOut.before.plan)
        THEN /\ rbOut.result = "ErrInvalidRebasePlanSquashFixupWithoutPick"
             /\ rbState = rbOut.before
             /\ rbStarted
        ELSE rbOut.result = "0"

\* the plan drops its first commit and squashes its second; --continue
\* failed and the plan is still there
C23_Witness ==
    /\ rbOut.query = "continue"
    /\ rbOut.result = "ErrInvalidRebasePlanSquashFixupWithoutPick"
    /\ Len(rbState.plan) = 2
    /\ rbState.plan[1].action = "drop"
    /\ rbState.plan[2].action = "squash"
    /\ rbState.active

\* a column at which the decision is final: a cut for NULL, or a cut at a
\* value against a NULL field
FinalAt(cut, v) == (cut.Null \/ cut.Value # Nil) /\ (cut.Null \/ v = Nil)

\* what the statement asks of one column
CutSatisfied(cut, v, isStart) ==
    \/ ~cut.Null /\ cut.Value = Nil
    \/ cut.Null /\ v = Nil
    \/ /\ ~cut.Null
       /\ cut.Value # Nil
       /\ v # Nil
       /\ \/ (IF isStart THEN v > cut.Value ELSE v < cut.Value)
          \/ (cut.Inclusive /\ v = cut.Value)

\* every column up to the first final one is satisfied
CutsSatisfied(cuts, t, isStart) ==
    LET final == {i \in DOMAIN cuts : FinalAt(cuts[i], t[i])}
        last  == IF final = {} THEN Len(cuts)
                 ELSE CHOOSE i \in final : \A j \in final : i <= j
    IN  \A i \in 1..last : CutSatisfied(cuts[i], t[i], isStart)

\* C24: in AboveStart and BelowStop a nonBinding cut never rejects a tuple;
\* for a Null cut the field must be NULL, for a Value cut a NULL field
\* rejects, and in both cases the column decides (later columns are not
\* looked at); for a field that is not NULL a Value cut is satisfied iff the
\* field is above the value (Start) or below it (Stop), or equal to it when
\* the cut is Inclusive.
C24_NullHandling ==
    out.op = "member" =>
        /\ out.above = CutsSatisfied(ranges[1].Start, out.t, TRUE)
        /\ out.below = CutsSatisfied(ranges[1].Stop, out.t, FALSE)

\* a tuple with NULL in its first column is admitted by a Null cut there,
\* whatever the cut of the second column, which the tuple does not satisfy
C24_Witness ==
    /\ out.op = "member"
    /\ out.t = <<Nil, 1>>
    /\ ranges[1].Start = <<RangeCut(Nil, FALSE, TRUE), RangeCut(2, TRUE, FALSE)>>
    /\ ranges[1].Stop = <<RangeCut(Nil, FALSE, FALSE), RangeCut(Nil, FALSE, FALSE)>>
    /\ out.above
    /\ out.below

\* C25: for every range and every node of sorted keys binarySearchRangeStart
\* returns the index of linearSearchRangeStart and binarySearchRangeStop the
\* index of linearSearchRangeStop.
C25_BinaryIsLinear ==
    out.op = "bsearch" =>
        /\ out.start = linearSearchRangeStart(ranges[1], ndKeys)
        /\ out.stop = linearSearchRangeStop(ranges[1], ndKeys)

\* C26: no interleaving of concurrent sqlRowConverter calls on a fresh state
\* panics: a caller that finds a cachedSqlRowConverter has loaded a
\* cachedProjections that is not nil, so that the type assertion holds.
C26_NoPanic ==
    \A t \in Sessions : ~convCalls[t].panic

\* the bytes the readers are limited to, all together
RECURSIVE LimitSum(_)
LimitSum(rs) ==
    IF rs = <<>> THEN 0 ELSE rs[1].limit + LimitSum(Tail(rs))

\* C27: nomsBlobPut covers the whole file: once the blob is made, reader i
\* starts at i*chunkSize, chunkSize is max(fileSize / concurrency, 2^20),
\* every reader is limited to chunkSize bytes and the last one to chunkSize
\* + fileSize mod chunkSize, and the limits sum to fileSize.
C27_WholeFile ==
    bpPc = "blob" =>
        /\ bpPut.chunkSize = IF bpPut.fileSize \div bpPut.concurrency > MinChunkSize
                             THEN bpPut.fileSize \div bpPut.concurrency
                             ELSE MinChunkSize
        /\ \A i \in DOMAIN bpReaders :
              /\ bpReaders[i].offset = (i - 1) * bpPut.chunkSize
              /\ bpReaders[i].limit =
                    IF i = Len(bpReaders)
                    THEN bpPut.chunkSize + (bpPut.fileSize % bpPut.chunkSize)
                    ELSE bpPut.chunkSize
        /\ LimitSum(bpReaders) = bpPut.fileSize

\* the prefix length the index has for the column of the call, 0 if none
TrimPrefix == prefixLength(trimIn.prefixLengths, trimIn.to)

\* C28: trimRangeCutValue(to, keyPart) returns the first min(p, len(keyPart))
\* bytes of a string or byte slice when the column has a prefix length p
\* that is not 0, whatever the length of the key (65536 bytes and more as
\* well), and keyPart as it is when there is no prefix length, when p = 0
\* or when keyPart has another type.
C28_TrimsToPrefix ==
    trimOut.done =>
        trimOut.keyPart =
            IF TrimPrefix # 0 /\ trimIn.keyPart.kind \in {"string", "[]uint8"}
            THEN [trimIn.keyPart EXCEPT !.len = IF TrimPrefix < trimIn.keyPart.len
                                                THEN TrimPrefix
                                                ELSE trimIn.keyPart.len]
            ELSE trimIn.keyPart

\* the invocation is on the one path that leads to cs.Commit: --update was
\* given, its text without the mark is a hash, the value under the hash is
\* a map with a ref of a commit, and the answer was y or Y
OnUpdatePath(pr) ==
    /\ pr.updateRoot # <<>>
    /\ pr.updateRoot = <<pr.h>>
    /\ pr.h \in Hashes
    /\ ValueAt(pr.h).kind = "map"
    /\ \E i \in DOMAIN ValueAt(pr.h).refs : ValueAt(pr.h).refs[i] = "commit"
    /\ pr.input \in {"y", "Y"}

\* the step is the call of cs.Commit by invocation p
CallsCommit(p) == ~procs[p].committed /\ procs'[p].committed

\* C29: runRoot changes the root at most once and on one path only: the
\* root changes only in a step where one invocation calls cs.Commit, an
\* invocation calls cs.Commit only with --update given, a hash that parses,
\* a value that validate accepts and the answer y or Y, and an invocation
\* that has called cs.Commit does nothing more.
C29_OneCommitPath ==
    [][/\ csRoot' # csRoot => \E p \in Procs : CallsCommit(p)
       /\ \A p \in Procs :
             /\ CallsCommit(p) =>
                   /\ OnUpdatePath(procs'[p])
                   /\ procs'[p].pc = "done"
                   /\ \A q \in Procs \ {p} : ~CallsCommit(q)
             /\ procs[p].committed =>
                   \/ procs'[p] = procs[p]
                   \/ procs'[p].pc = "root" /\ ~procs'[p].committed
             /\ (procs'[p].pc = "done" /\ ~OnUpdatePath(procs'[p]))
                   => ~procs'[p].committed]_vars

\* an invocation answered with Y has replaced the root by its hash
C29_Witness ==
    \E p \in Procs :
        /\ procs[p].committed /\ procs[p].ok
        /\ procs[p].input = "Y"
        /\ procs[p].after # procs[p].atCommit
        /\ csRoot = procs[p].h

\* the step is one of call t
StepOf(t) == callers'[t] # callers[t]

\* a state with its key, Primary and Secondary set
StateSet(st) ==
    /\ ~st.nil
    /\ st.key \in Versions
    /\ st.Primary # <<>>
    /\ st.Secondary # <<>>

\* C30: getDurableState leaves the cache alone on failure and when caching
\* is disallowed: a call that meets an error returns (nil, err) and its
\* step leaves the cached state as it is; a call whose DataCacheKey said
\* cancache = false neither returns the cached state nor stores; and the
\* cache changes only to a state with key, Primary and Secondary all set,
\* stored by a call that may cache.
C30_CacheUntouched ==
    [][/\ \A t \in Callers :
             /\ (StepOf(t) /\ callers'[t].err) =>
                   /\ callers'[t].pc = "done"
                   /\ callers'[t].ret = NilState
                   /\ diCache' = diCache
             /\ (StepOf(t) /\ callers[t].pc \in {"load", "build", "store"}
                           /\ ~callers[t].cancache) =>
                   /\ diCache' = diCache
                   /\ ~callers'[t].fromCache
       /\ diCache' # diCache =>
             /\ StateSet(diCache')
             /\ \E t \in Callers :
                   /\ callers[t].pc = "store"
                   /\ callers[t].cancache
                   /\ callers'[t].pc = "done"
                   /\ callers'[t].ret = diCache'
                   /\ ~callers'[t].err]_vars

\* with a state in the cache, one call has failed after DataCacheKey and
\* another has built its state without caching
C30_Witness ==
    \E t, u \in Callers :
        /\ t # u
        /\ ~diCache.nil
        /\ callers[t].pc = "done" /\ callers[t].err
        /\ callers[t].cancache /\ callers[t].newkey # 0
        /\ callers[u].pc = "done" /\ callers[u].stored
        /\ ~callers[u].cancache /\ callers[u].ret # diCache

=============================================================================
